---- MODULE Spec2Model ----
(***************************************************************************)
(* A model of the IPPcode23 interpreter (package ipp23): the typed value   *)
(* and argument model, the frames, the program state with its stacks and   *)
(* label table, the instructions and the two-pass execution loop.          *)
(*                                                                         *)
(* Python objects are modelled by value, with the one sharing the code     *)
(* creates kept explicit: Frame.define_variable stores the Variable object *)
(* of the DEFVAR instruction's own argument in the frame, so a frame cell  *)
(* is either a reference to that argument object (ref = the instruction's  *)
(* 1-based position) or a private copy made by copy.deepcopy (ref = 0).    *)
(*                                                                         *)
(* The instruction list is an input.  Its length and its LABEL             *)
(* instructions are drawn in Init; every other slot is drawn from the      *)
(* alphabet of the specification when the dispatch loop first fetches it   *)
(* and is kept from then on.  An instruction has no effect before it is    *)
(* fetched (the label pass only looks for the opcode LABEL), so this       *)
(* yields the runs of all instruction lists over the alphabet.             *)
(***************************************************************************)
EXTENDS Integers, Sequences, FiniteSets, TLC

VARIABLES
    instructions,   \* Interpret.instructions, sorted by order (1-based here)
    program_state,  \* Interpret.program_state (a Program) and the DEFVAR argument objects
    phase,          \* where main() is: LabelPass, Dispatching, Ended, Exited, Aborted, Crashed
    exit_code,      \* the process exit code once the run is over
    it,             \* position of the label pass's for loop (0-based)
    prev_state,     \* history: program_state before the last executed instruction
    last,           \* history: the last instruction the dispatch loop executed
    call_sites,     \* history: the CALL behind each call-stack entry, and the last one matched
    unassigned,     \* history: per frame, the names declared and not assigned since
    source,         \* the instruction elements of the input document, in document order
    pushed,         \* history: what each data-stack entry's symbol held when it was pushed
    output          \* the characters printed to standard output so far

vars == <<instructions, program_state, phase, exit_code, it, prev_state, last,
          call_sites, unassigned, source, pushed, output>>

----------------------------------------------------------------------------
(* Bounds of the model *)

\* longest instruction list of the control-flow specification
MaxLenCtl == 5
\* CALL is not taken beyond this call-stack depth
MaxCallDepth == 3
\* longest instruction list of the data specification
MaxLenData == 3
\* longest instruction list of the frame specification
MaxLenFrame == 7
\* PUSHFRAME is not taken beyond this many local frames
MaxLocalFrames == 2

\* longest instruction list of the data-stack specification
MaxLenStack == 5
\* PUSHS is not taken beyond this data-stack depth
MaxDataStack == 3

\* longest instruction list of the empty-stack specification
MaxLenEmpty == 4

\* longest instruction list of the step specification
MaxLenStep == 4

\* longest document of the operand specification
MaxLenArgs == 2
\* longest instruction list of the arithmetic specification
MaxLenArith == 3
\* most instruction elements of an input document
MaxLenLoad == 3
\* largest order attribute of an instruction element
MaxOrder == 4

\* longest instruction list of the relational specification
MaxLenRel == 3
\* longest instruction list of the conditional-jump specification
MaxLenJump == 3

MaxLenStr == 3
MaxLenType == 5
MaxLenWrite == 4
MaxLenLogic == 3
MaxEscTokens == 2

----------------------------------------------------------------------------
(* exceptions.py: ErrorType *)

ERR_XML_STRUCT == 32
ERR_SYNTAX == 32
ERR_SEMANTICS == 52
ERR_OPERAND_TYPE == 53
ERR_NO_EXIST_VAR == 54
ERR_NO_EXIST_FRAME == 55
ERR_VAR_NOT_INIT == 56
ERR_OPERAND_VALUE == 57
ERR_STRING == 58

----------------------------------------------------------------------------
(* type_enums.py and argument.py: values and arguments.                    *)
(* A value is a DataType tag with the Python value: i for int, b for bool, *)
(* s (a sequence of character ordinals) for str.  NONE is Python's None,   *)
(* the value of a Variable that was never set.                             *)

NONE == [t |-> "none", i |-> 0, b |-> FALSE, s |-> <<>>]
ConstInt(n) == [t |-> "int", i |-> n, b |-> FALSE, s |-> <<>>]
ConstBool(x) == [t |-> "bool", i |-> 0, b |-> x, s |-> <<>>]
ConstString(str) == [t |-> "string", i |-> 0, b |-> FALSE, s |-> str]
\* ConstNil holds the Python string 'nil'
ConstNil == [t |-> "nil", i |-> 0, b |-> FALSE, s |-> <<110, 105, 108>>]

NoArg == [k |-> "none", fr |-> "", name |-> "", val |-> NONE]
Variable(frame, name) == [k |-> "var", fr |-> frame, name |-> name, val |-> NONE]
Const(v) == [k |-> "const", fr |-> "", name |-> "", val |-> v]
Label(name) == [k |-> "label", fr |-> "", name |-> name, val |-> NONE]
\* a type literal: type_name is int, bool or string
Type(type_name) == [k |-> "type", fr |-> "", name |-> type_name, val |-> NONE]

Instruction(opcode, a1, a2, a3) == [op |-> opcode, a1 |-> a1, a2 |-> a2, a3 |-> a3]
\* a slot of the list that the dispatch loop has not fetched yet
Unknown == Instruction("?", NoArg, NoArg, NoArg)
\* history value: nothing executed yet
NoInstruction == Instruction("-", NoArg, NoArg, NoArg)

----------------------------------------------------------------------------
(* Results of operations: kind is ok, raise (one of the IPP23 exceptions,  *)
(* with its exit code), exit (ExitProgramException) or crash (any other    *)
(* Python exception); p is the state when the operation ended, v a value.  *)

Ok(p) == [kind |-> "ok", code |-> 0, p |-> p, v |-> NONE]
OkV(p, v) == [kind |-> "ok", code |-> 0, p |-> p, v |-> v]
Raise(p, code) == [kind |-> "raise", code |-> code, p |-> p, v |-> NONE]
ExitProgram(p, code) == [kind |-> "exit", code |-> code, p |-> p, v |-> NONE]
Crash(p) == [kind |-> "crash", code |-> 1, p |-> p, v |-> NONE]

----------------------------------------------------------------------------
(* frame.py.  A frame is a function from the defined names to cells.       *)

EmptyFrame == << >>
ArgCell(idx) == [ref |-> idx, val |-> NONE]
OwnCell(v) == [ref |-> 0, val |-> v]

\* the value held by the Variable object a cell stands for
CellValue(p, c) == IF c.ref = 0 THEN c.val ELSE p.objs[c.ref]

exists(f, name) == name \in DOMAIN f

\* Frame.define_variable: the frame with the argument object idx stored under name
define_variable(f, name, idx) ==
    [n \in DOMAIN f \cup {name} |-> IF n = name THEN ArgCell(idx) ELSE f[n]]

\* Variable.set_value through Frame.set_variable: the object behind the cell changes
set_value(p, f, name, v) ==
    IF f[name].ref = 0
    THEN [p |-> p, f |-> [f EXCEPT ![name] = OwnCell(v)]]
    ELSE [p |-> [p EXCEPT !.objs[f[name].ref] = v], f |-> f]

\* Variable.is_initialized
is_initialized(p, f, name) == CellValue(p, f[name]) # NONE

\* copy.deepcopy of a frame: fresh Variable objects holding the same values
deepcopy(p, f) == [n \in DOMAIN f |-> OwnCell(CellValue(p, f[n]))]

\* what a frame holds: each defined name with the value of its variable
FrameView(p, f) == [n \in DOMAIN f |-> CellValue(p, f[n])]

----------------------------------------------------------------------------
(* program.py: Program *)

\* Program.__init__, with the argument objects of a list of n instructions
NewProgram(n) ==
    [pc |-> 0, labels |-> << >>, gf |-> EmptyFrame, tf |-> EmptyFrame,
     tf_valid |-> FALSE, lfs |-> << >>, data_stack |-> << >>, call_stack |-> << >>,
     objs |-> [j \in 1..n |-> NONE]]

\* program_counter setter
set_program_counter(p, new_pc) ==
    IF new_pc < 0 THEN Raise(p, ERR_SEMANTICS) ELSE Ok([p EXCEPT !.pc = new_pc])

\* faulty variant of create_label: a name already used is moved to the new address
create_label_overwrite(p, name, address) ==
    Ok([p EXCEPT !.labels =
            [n \in DOMAIN p.labels \cup {name} |->
                IF n = name THEN address ELSE p.labels[n]]])

create_label(p, name, address) ==
    IF name \notin DOMAIN p.labels
    THEN Ok([p EXCEPT !.labels =
                [n \in DOMAIN p.labels \cup {name} |->
                    IF n = name THEN address ELSE p.labels[n]]])
    ELSE IF p.labels[name] = address THEN Ok(p)
    ELSE Raise(p, ERR_SEMANTICS)

\* faulty variant of get_label_address: an unknown label is at address 0
get_label_address_default(p, name) ==
    IF name \notin DOMAIN p.labels
    THEN OkV(p, ConstInt(0))
    ELSE OkV(p, ConstInt(p.labels[name]))

get_label_address(p, name) ==
    IF name \notin DOMAIN p.labels
    THEN Raise(p, ERR_SEMANTICS)
    ELSE OkV(p, ConstInt(p.labels[name]))

\* Program.get_frame: v is unused, the frame itself is read with FrameOf
get_frame(p, frame_type) ==
    CASE frame_type = "gf" -> Ok(p)
      [] frame_type = "lf" ->
            IF p.lfs = << >> THEN Raise(p, ERR_NO_EXIST_FRAME) ELSE Ok(p)
      [] frame_type = "tf" ->
            IF ~p.tf_valid THEN Raise(p, ERR_NO_EXIST_FRAME) ELSE Ok(p)
      [] OTHER -> Raise(p, ERR_SEMANTICS)

FrameOf(p, frame_type) ==
    CASE frame_type = "gf" -> p.gf
      [] frame_type = "lf" -> p.lfs[Len(p.lfs)]
      [] frame_type = "tf" -> p.tf

WithFrame(p, frame_type, f) ==
    CASE frame_type = "gf" -> [p EXCEPT !.gf = f]
      [] frame_type = "lf" -> [p EXCEPT !.lfs[Len(p.lfs)] = f]
      [] frame_type = "tf" -> [p EXCEPT !.tf = f]

\* faulty variant of declare_variable: no check that the name is new
declare_variable_unchecked(p, var, idx) ==
    LET g == get_frame(p, var.fr) IN
    IF g.kind # "ok" THEN g
    ELSE Ok(WithFrame(p, var.fr, define_variable(FrameOf(p, var.fr), var.name, idx)))

\* Program.declare_variable with Frame.define_variable; idx is the position of
\* the instruction whose argument object is stored
declare_variable(p, var, idx) ==
    LET g == get_frame(p, var.fr) IN
    IF g.kind # "ok" THEN g
    ELSE IF exists(FrameOf(p, var.fr), var.name) THEN Raise(p, ERR_SEMANTICS)
    ELSE Ok(WithFrame(p, var.fr, define_variable(FrameOf(p, var.fr), var.name, idx)))

\* Program.set_variable with Frame.set_variable
set_variable(p, var, v) ==
    LET g == get_frame(p, var.fr) IN
    IF g.kind # "ok" THEN g
    ELSE IF ~exists(FrameOf(p, var.fr), var.name) THEN Raise(p, ERR_NO_EXIST_VAR)
    ELSE LET w == set_value(p, FrameOf(p, var.fr), var.name, v) IN
         Ok(WithFrame(w.p, var.fr, w.f))

\* Program._get_variable_value / _get_variable_type with Frame.get_value /
\* Frame.get_type / Frame.is_initialized: both fail alike, v carries value and type
get_variable(p, var) ==
    LET g == get_frame(p, var.fr) IN
    IF g.kind # "ok" THEN g
    ELSE IF ~exists(FrameOf(p, var.fr), var.name) THEN Raise(p, ERR_NO_EXIST_VAR)
    ELSE IF ~is_initialized(p, FrameOf(p, var.fr), var.name)
         THEN Raise(p, ERR_VAR_NOT_INIT)
    ELSE OkV(p, CellValue(p, FrameOf(p, var.fr)[var.name]))

\* Program.get_symbol_value / get_symbol_type
get_symbol(p, symbol) ==
    IF symbol.k = "var" THEN get_variable(p, symbol) ELSE OkV(p, symbol.val)

\* faulty variant of create_frame: validates the temporary frame without clearing it
create_frame_uncleared(p) == Ok([p EXCEPT !.tf_valid = TRUE])

create_frame(p) == Ok([p EXCEPT !.tf = EmptyFrame, !.tf_valid = TRUE])

\* faulty variant of push_frame: leaves the temporary frame valid
push_frame_still_valid(p) ==
    IF ~p.tf_valid THEN Raise(p, ERR_NO_EXIST_FRAME)
    ELSE Ok([p EXCEPT !.lfs = Append(p.lfs, deepcopy(p, p.tf))])

push_frame(p) ==
    IF ~p.tf_valid THEN Raise(p, ERR_NO_EXIST_FRAME)
    ELSE Ok([p EXCEPT !.lfs = Append(p.lfs, deepcopy(p, p.tf)), !.tf_valid = FALSE])

\* faulty variant of pop_frame: drops the top frame without moving it
pop_frame_dropped(p) ==
    IF p.lfs = << >> THEN Raise(p, ERR_NO_EXIST_FRAME)
    ELSE Ok([p EXCEPT !.lfs = SubSeq(p.lfs, 1, Len(p.lfs) - 1), !.tf_valid = TRUE])

pop_frame(p) ==
    IF p.lfs = << >> THEN Raise(p, ERR_NO_EXIST_FRAME)
    ELSE Ok([p EXCEPT !.tf = deepcopy(p, p.lfs[Len(p.lfs)]),
                      !.lfs = SubSeq(p.lfs, 1, Len(p.lfs) - 1),
                      !.tf_valid = TRUE])

\* faulty variant of call_stack_pop: an empty call stack yields address 0
call_stack_pop_default(p) ==
    IF p.call_stack = << >> THEN OkV(p, ConstInt(0))
    ELSE OkV([p EXCEPT !.call_stack = SubSeq(p.call_stack, 1, Len(p.call_stack) - 1)],
             ConstInt(p.call_stack[Len(p.call_stack)]))

\* faulty variant of call_stack_pop: takes the oldest entry, not the newest
call_stack_pop_oldest(p) ==
    IF p.call_stack = << >> THEN Raise(p, ERR_VAR_NOT_INIT)
    ELSE OkV([p EXCEPT !.call_stack = SubSeq(p.call_stack, 2, Len(p.call_stack))],
             ConstInt(p.call_stack[1]))

call_stack_pop(p) ==
    IF p.call_stack = << >> THEN Raise(p, ERR_VAR_NOT_INIT)
    ELSE OkV([p EXCEPT !.call_stack = SubSeq(p.call_stack, 1, Len(p.call_stack) - 1)],
             ConstInt(p.call_stack[Len(p.call_stack)]))

call_stack_push(p, address) ==
    IF address < 0 THEN Raise(p, ERR_SEMANTICS)
    ELSE Ok([p EXCEPT !.call_stack = Append(p.call_stack, address)])

\* Symbol.get_value / Symbol.get_type of a data-stack entry: the entry is the
\* argument object that was pushed, constants carry their value, a Variable
\* argument object (ref is the position of its instruction) what was set on it
SymbolValue(p, e) == IF e.sym.k = "var" THEN p.objs[e.ref] ELSE e.sym.val

\* faulty variant of data_stack_pop: an empty data stack is a missing variable
data_stack_pop_no_var(p) ==
    IF p.data_stack = << >> THEN Raise(p, ERR_NO_EXIST_VAR)
    ELSE OkV([p EXCEPT !.data_stack = SubSeq(p.data_stack, 1, Len(p.data_stack) - 1)],
             SymbolValue(p, p.data_stack[Len(p.data_stack)]))

\* Program.data_stack_pop; v is what the popped symbol object holds
data_stack_pop(p) ==
    IF p.data_stack = << >> THEN Raise(p, ERR_VAR_NOT_INIT)
    ELSE OkV([p EXCEPT !.data_stack = SubSeq(p.data_stack, 1, Len(p.data_stack) - 1)],
             SymbolValue(p, p.data_stack[Len(p.data_stack)]))

\* Program.data_stack_push of the argument object symbol of the instruction at idx
data_stack_push(p, symbol, idx) ==
    Ok([p EXCEPT !.data_stack = Append(p.data_stack, [sym |-> symbol, ref |-> idx])])

----------------------------------------------------------------------------
(* instruction.py: the execute method of each instruction class.           *)
(* p.pc + 1 is the 1-based position of the executing instruction.          *)

\* program_state.program_counter += 1
Advance(p) == set_program_counter(p, p.pc + 1)

CreateFrameInstruction(p, ins) ==
    LET r == create_frame(p) IN IF r.kind # "ok" THEN r ELSE Advance(r.p)

PushFrameInstruction(p, ins) ==
    LET r == push_frame(p) IN IF r.kind # "ok" THEN r ELSE Advance(r.p)

PopFrameInstruction(p, ins) ==
    LET r == pop_frame(p) IN IF r.kind # "ok" THEN r ELSE Advance(r.p)

\* self.args[0] is the Variable object of the instruction at position p.pc + 1
DefVarInstruction(p, ins) ==
    LET r == declare_variable(p, ins.a1, p.pc + 1) IN
    IF r.kind # "ok" THEN r ELSE Advance(r.p)

MoveInstruction(p, ins) ==
    LET s == get_symbol(p, ins.a2) IN
    IF s.kind # "ok" THEN s
    ELSE LET w == set_variable(p, ins.a1, s.v) IN
         IF w.kind # "ok" THEN w ELSE Advance(w.p)

\* faulty variant of CallInstruction: saves the address after the next one
CallInstruction_skip(p, ins) ==
    LET r == call_stack_push(p, p.pc + 2) IN
    IF r.kind # "ok" THEN r
    ELSE LET a == get_label_address(r.p, ins.a1.name) IN
         IF a.kind # "ok" THEN a ELSE set_program_counter(a.p, a.v.i)

CallInstruction(p, ins) ==
    LET r == call_stack_push(p, p.pc + 1) IN
    IF r.kind # "ok" THEN r
    ELSE LET a == get_label_address(r.p, ins.a1.name) IN
         IF a.kind # "ok" THEN a ELSE set_program_counter(a.p, a.v.i)

ReturnInstruction(p, ins) ==
    LET r == call_stack_pop(p) IN
    IF r.kind # "ok" THEN r ELSE set_program_counter(r.p, r.v.i)

\* faulty variant of LabelInstruction: registering a known name is an error
LabelInstruction_strict(p, ins) ==
    IF ins.a1.name \in DOMAIN p.labels THEN Raise(p, ERR_SEMANTICS)
    ELSE LET r == create_label(p, ins.a1.name, p.pc + 1) IN
         IF r.kind # "ok" THEN r ELSE Advance(r.p)

LabelInstruction(p, ins) ==
    LET r == create_label(p, ins.a1.name, p.pc + 1) IN
    IF r.kind # "ok" THEN r ELSE Advance(r.p)

JumpInstruction(p, ins) ==
    LET a == get_label_address(p, ins.a1.name) IN
    IF a.kind # "ok" THEN a ELSE set_program_counter(a.p, a.v.i)

\* faulty variant of ExitInstruction: accepts 50 as an exit code
ExitInstruction_upto50(p, ins) ==
    LET s == get_symbol(p, ins.a1) IN
    IF s.kind # "ok" THEN s
    ELSE IF s.v.t # "int" THEN Raise(p, ERR_OPERAND_TYPE)
    ELSE IF ~(s.v.i \in 0..50) THEN Raise(p, ERR_OPERAND_VALUE)
    ELSE ExitProgram(p, s.v.i)

ExitInstruction(p, ins) ==
    LET s == get_symbol(p, ins.a1) IN
    IF s.kind # "ok" THEN s
    ELSE IF s.v.t # "int" THEN Raise(p, ERR_OPERAND_TYPE)
    ELSE IF ~(s.v.i \in 0..49) THEN Raise(p, ERR_OPERAND_VALUE)
    ELSE ExitProgram(p, s.v.i)

\* GetCharInstruction.execute: after the checks it evaluates
\* arg2_value[arg1_value], an int subscripted with a str, which raises
\* TypeError, an exception main does not catch
GetCharInstruction(p, ins) ==
    LET s1 == get_symbol(p, ins.a2) IN
    IF s1.kind # "ok" THEN s1
    ELSE LET s2 == get_symbol(p, ins.a3) IN
         IF s2.kind # "ok" THEN s2
         ELSE IF ~(s1.v.t = "string" /\ s2.v.t = "int") THEN Raise(p, ERR_OPERAND_TYPE)
         ELSE IF ~(s2.v.i \in 0..(Len(s1.v.s) - 1)) THEN Raise(p, ERR_STRING)
         ELSE Crash(p)

\* Python's // on ints: the floor of the quotient
FloorDiv(a, b) == IF b > 0 THEN a \div b ELSE (-a) \div (-b)

\* faulty variant of IdivInstruction: a zero divisor is only rejected for a
\* numerator that is not negative
IdivInstruction_sign(p, ins) ==
    LET s1 == get_symbol(p, ins.a2) IN
    IF s1.kind # "ok" THEN s1
    ELSE LET s2 == get_symbol(p, ins.a3) IN
         IF s2.kind # "ok" THEN s2
         ELSE IF ~(s1.v.t = "int" /\ s2.v.t = "int") THEN Raise(p, ERR_OPERAND_TYPE)
         ELSE IF s2.v.i = 0 /\ s1.v.i >= 0 THEN Raise(p, ERR_OPERAND_VALUE)
         ELSE LET w == set_variable(p, ins.a1,
                           ConstInt(IF s2.v.i = 0 THEN 0 ELSE FloorDiv(s1.v.i, s2.v.i))) IN
              IF w.kind # "ok" THEN w ELSE Advance(w.p)

IdivInstruction(p, ins) ==
    LET s1 == get_symbol(p, ins.a2) IN
    IF s1.kind # "ok" THEN s1
    ELSE LET s2 == get_symbol(p, ins.a3) IN
         IF s2.kind # "ok" THEN s2
         ELSE IF ~(s1.v.t = "int" /\ s2.v.t = "int") THEN Raise(p, ERR_OPERAND_TYPE)
         ELSE IF s2.v.i = 0 THEN Raise(p, ERR_OPERAND_VALUE)
         ELSE LET w == set_variable(p, ins.a1, ConstInt(FloorDiv(s1.v.i, s2.v.i))) IN
              IF w.kind # "ok" THEN w ELSE Advance(w.p)

EqInstruction(p, ins) ==
    LET s1 == get_symbol(p, ins.a2) IN
    IF s1.kind # "ok" THEN s1
    ELSE LET s2 == get_symbol(p, ins.a3) IN
         IF s2.kind # "ok" THEN s2
         ELSE IF s1.v.t # s2.v.t THEN Raise(p, ERR_OPERAND_TYPE)
         ELSE LET w == set_variable(p, ins.a1, ConstBool(s1.v = s2.v)) IN
              IF w.kind # "ok" THEN w ELSE Advance(w.p)

\* PushsInstruction.execute pushes self.args[0], the argument object itself
PushsInstruction(p, ins) ==
    LET r == data_stack_push(p, ins.a1, IF ins.a1.k = "var" THEN p.pc + 1 ELSE 0) IN
    IF r.kind # "ok" THEN r ELSE Advance(r.p)

\* PopsInstruction.execute: symbol.get_value() is Variable.get_value for a
\* pushed Variable object and raises when nothing was set on that object
PopsInstruction(p, ins) ==
    LET r == data_stack_pop(p) IN
    IF r.kind # "ok" THEN r
    ELSE IF r.v = NONE THEN Raise(r.p, ERR_VAR_NOT_INIT)
    ELSE LET w == set_variable(r.p, ins.a1, r.v) IN
         IF w.kind # "ok" THEN w ELSE Advance(w.p)

ConcatInstruction(p, ins) ==
    LET s1 == get_symbol(p, ins.a2) IN
    IF s1.kind # "ok" THEN s1
    ELSE LET s2 == get_symbol(p, ins.a3) IN
         IF s2.kind # "ok" THEN s2
         ELSE IF ~(s1.v.t = "string" /\ s2.v.t = "string") THEN Raise(p, ERR_OPERAND_TYPE)
         ELSE LET w == set_variable(p, ins.a1, ConstString(s1.v.s \o s2.v.s)) IN
              IF w.kind # "ok" THEN w ELSE Advance(w.p)

StrLenInstruction(p, ins) ==
    LET s == get_symbol(p, ins.a2) IN
    IF s.kind # "ok" THEN s
    ELSE IF s.v.t # "string" THEN Raise(p, ERR_OPERAND_TYPE)
    ELSE LET w == set_variable(p, ins.a1, ConstInt(Len(s.v.s))) IN
         IF w.kind # "ok" THEN w ELSE Advance(w.p)

\* DprintInstruction.execute: the value goes to standard error
DprintInstruction(p, ins) ==
    LET s == get_symbol(p, ins.a1) IN
    IF s.kind # "ok" THEN s ELSE Advance(p)

\* faulty variant of BreakInstruction: the program counter stays
BreakInstruction_stay(p, ins) == Ok(p)

\* BreakInstruction.execute: the state goes to standard error
BreakInstruction(p, ins) == Advance(p)

RECURSIVE StrLt(_, _)
\* Python's < on str: lexicographic by character ordinal
StrLt(a, b) ==
    IF b = << >> THEN FALSE
    ELSE IF a = << >> THEN TRUE
    ELSE IF a[1] # b[1] THEN a[1] < b[1]
    ELSE StrLt(Tail(a), Tail(b))

\* the Python int a value of type int or bool compares as (True is 1, False is 0)
PyInt(v) == IF v.t = "bool" THEN (IF v.b THEN 1 ELSE 0) ELSE v.i

\* Python's < on the values of two symbols of the same type
PyLt(a, b) == IF a.t \in {"string", "nil"} THEN StrLt(a.s, b.s) ELSE PyInt(a) < PyInt(b)

\* Python's == on the values of two symbols; the types are not compared and
\* the value of nil is the str 'nil'
PyEq(a, b) ==
    IF a.t \in {"string", "nil"} THEN b.t \in {"string", "nil"} /\ a.s = b.s
    ELSE b.t \in {"int", "bool"} /\ PyInt(a) = PyInt(b)

\* faulty variant of LtInstruction: no check for nil operands
LtInstruction_nil(p, ins) ==
    LET s1 == get_symbol(p, ins.a2) IN
    IF s1.kind # "ok" THEN s1
    ELSE LET s2 == get_symbol(p, ins.a3) IN
         IF s2.kind # "ok" THEN s2
         ELSE IF s1.v.t # s2.v.t THEN Raise(p, ERR_OPERAND_TYPE)
         ELSE LET w == set_variable(p, ins.a1, ConstBool(PyLt(s1.v, s2.v))) IN
              IF w.kind # "ok" THEN w ELSE Advance(w.p)

LtInstruction(p, ins) ==
    LET s1 == get_symbol(p, ins.a2) IN
    IF s1.kind # "ok" THEN s1
    ELSE LET s2 == get_symbol(p, ins.a3) IN
         IF s2.kind # "ok" THEN s2
         ELSE IF s1.v.t # s2.v.t THEN Raise(p, ERR_OPERAND_TYPE)
         ELSE IF s1.v.t = "nil" THEN Raise(p, ERR_OPERAND_TYPE)
         ELSE LET w == set_variable(p, ins.a1, ConstBool(PyLt(s1.v, s2.v))) IN
              IF w.kind # "ok" THEN w ELSE Advance(w.p)

GtInstruction(p, ins) ==
    LET s1 == get_symbol(p, ins.a2) IN
    IF s1.kind # "ok" THEN s1
    ELSE LET s2 == get_symbol(p, ins.a3) IN
         IF s2.kind # "ok" THEN s2
         ELSE IF s1.v.t # s2.v.t THEN Raise(p, ERR_OPERAND_TYPE)
         ELSE IF s1.v.t = "nil" THEN Raise(p, ERR_OPERAND_TYPE)
         ELSE LET w == set_variable(p, ins.a1, ConstBool(PyLt(s2.v, s1.v))) IN
              IF w.kind # "ok" THEN w ELSE Advance(w.p)

\* the conditional jumps: the label is looked up only when the jump is taken
JumpIfEqInstruction(p, ins) ==
    LET s1 == get_symbol(p, ins.a2) IN
    IF s1.kind # "ok" THEN s1
    ELSE LET s2 == get_symbol(p, ins.a3) IN
         IF s2.kind # "ok" THEN s2
         ELSE IF ~(s1.v.t = s2.v.t \/ s1.v.t = "nil" \/ s2.v.t = "nil")
              THEN Raise(p, ERR_OPERAND_TYPE)
         ELSE IF PyEq(s1.v, s2.v)
              THEN LET a == get_label_address(p, ins.a1.name) IN
                   IF a.kind # "ok" THEN a ELSE set_program_counter(a.p, a.v.i)
         ELSE Advance(p)

JumpIfNeqInstruction(p, ins) ==
    LET s1 == get_symbol(p, ins.a2) IN
    IF s1.kind # "ok" THEN s1
    ELSE LET s2 == get_symbol(p, ins.a3) IN
         IF s2.kind # "ok" THEN s2
         ELSE IF ~(s1.v.t = s2.v.t \/ s1.v.t = "nil" \/ s2.v.t = "nil")
              THEN Raise(p, ERR_OPERAND_TYPE)
         ELSE IF ~PyEq(s1.v, s2.v)
              THEN LET a == get_label_address(p, ins.a1.name) IN
                   IF a.kind # "ok" THEN a ELSE set_program_counter(a.p, a.v.i)
         ELSE Advance(p)

\* the largest code point chr accepts (0x10FFFF)
MaxOrdinal == 1114111

\* Int2CharInstruction.execute: chr of the operand's value, whatever its
\* type; chr takes a bool as the int it is, and its ValueError (an int out
\* of range) and TypeError (a str, the value of a string or of nil) become
\* ERR_STRING
Int2CharInstruction(p, ins) ==
    LET s == get_symbol(p, ins.a2) IN
    IF s.kind # "ok" THEN s
    ELSE IF ~(s.v.t \in {"int", "bool"}) THEN Raise(p, ERR_STRING)
    ELSE IF ~(PyInt(s.v) \in 0..MaxOrdinal) THEN Raise(p, ERR_STRING)
    ELSE LET w == set_variable(p, ins.a1, ConstString(<<PyInt(s.v)>>)) IN
         IF w.kind # "ok" THEN w ELSE Advance(w.p)

\* Stri2IntInstruction.execute: the types are read through the program
\* state, the index first; the values are read with get_value on the
\* instruction's own argument objects, and the Variable object of an
\* instruction other than DEFVAR is never assigned
Stri2IntInstruction(p, ins) ==
    LET s2 == get_symbol(p, ins.a3) IN
    IF s2.kind # "ok" THEN s2
    ELSE IF s2.v.t # "int" THEN Raise(p, ERR_OPERAND_TYPE)
    ELSE LET s1 == get_symbol(p, ins.a2) IN
         IF s1.kind # "ok" THEN s1
         ELSE IF s1.v.t # "string" THEN Raise(p, ERR_OPERAND_TYPE)
         ELSE IF ins.a3.k = "var" \/ ins.a2.k = "var" THEN Raise(p, ERR_VAR_NOT_INIT)
         ELSE IF s2.v.i >= Len(s1.v.s) \/ s2.v.i < 0 THEN Raise(p, ERR_STRING)
         ELSE LET w == set_variable(p, ins.a1, ConstInt(s1.v.s[s2.v.i + 1])) IN
              IF w.kind # "ok" THEN w ELSE Advance(w.p)

\* SetCharInstruction.execute: both string errors are ErrorType.ERR_STRING;
\* past the checks it assigns to an item of a str, which raises TypeError
SetCharInstruction(p, ins) ==
    LET s0 == get_symbol(p, ins.a1) IN
    IF s0.kind # "ok" THEN s0
    ELSE LET s1 == get_symbol(p, ins.a2) IN
         IF s1.kind # "ok" THEN s1
         ELSE LET s2 == get_symbol(p, ins.a3) IN
              IF s2.kind # "ok" THEN s2
              ELSE IF ~(s0.v.t = "string" /\ s1.v.t = "int" /\ s2.v.t = "string")
                   THEN Raise(p, ERR_OPERAND_TYPE)
              ELSE IF ~(s1.v.i \in 0..(Len(s0.v.s) - 1)) THEN Raise(p, ERR_STRING)
              ELSE IF Len(s2.v.s) = 0 THEN Raise(p, ERR_STRING)
              ELSE Crash(p)

\* DataType.value: the name of a type, as character ordinals
TypeName(t) ==
    CASE t = "int" -> <<105, 110, 116>>
      [] t = "bool" -> <<98, 111, 111, 108>>
      [] t = "string" -> <<115, 116, 114, 105, 110, 103>>
      [] t = "nil" -> <<110, 105, 108>>

\* TypeInstruction.execute: only the error with exit code ERR_VAR_NOT_INIT is
\* swallowed
TypeInstruction(p, ins) ==
    LET s == get_symbol(p, ins.a2) IN
    IF s.kind # "ok" /\ ~(s.kind = "raise" /\ s.code = ERR_VAR_NOT_INIT) THEN s
    ELSE LET w == set_variable(p, ins.a1,
                               ConstString(IF s.kind = "ok" THEN TypeName(s.v.t) ELSE << >>))
         IN IF w.kind # "ok" THEN w ELSE Advance(w.p)

RECURSIVE Digits(_)
\* the decimal digits of a natural number, as character ordinals
Digits(n) == IF n < 10 THEN <<48 + n>> ELSE Append(Digits(n \div 10), 48 + (n % 10))

\* str of a Python int
PyStr(n) == IF n < 0 THEN <<45>> \o Digits(-n) ELSE Digits(n)

\* what print(value, end='') writes for the value of a symbol that is not a
\* bool: str of an int, the str itself otherwise (the value of nil is 'nil')
Printed(v) == IF v.t = "int" THEN PyStr(v.i) ELSE v.s

\* faulty variant of WriteInstruction: no branch for nil, whose value is printed
WriteInstruction_nil(p, ins) ==
    LET s == get_symbol(p, ins.a1) IN
    IF s.kind # "ok" THEN s
    ELSE LET text == IF s.v.t = "bool"
                     THEN (IF s.v.b THEN <<116, 114, 117, 101>>
                           ELSE <<102, 97, 108, 115, 101>>)
                     ELSE Printed(s.v)
         IN OkV(Advance(p).p, ConstString(text))

\* WriteInstruction.execute; the result carries the printed characters
WriteInstruction(p, ins) ==
    LET s == get_symbol(p, ins.a1) IN
    IF s.kind # "ok" THEN s
    ELSE LET text == IF s.v.t = "bool"
                     THEN (IF s.v.b THEN <<116, 114, 117, 101>>
                           ELSE <<102, 97, 108, 115, 101>>)
                     ELSE IF s.v.t = "nil" THEN << >>
                     ELSE Printed(s.v)
         IN OkV(Advance(p).p, ConstString(text))

\* faulty variant of AddInstruction: a bool operand counts as the int it is
AddInstruction_coerce(p, ins) ==
    LET s1 == get_symbol(p, ins.a2) IN
    IF s1.kind # "ok" THEN s1
    ELSE LET s2 == get_symbol(p, ins.a3) IN
         IF s2.kind # "ok" THEN s2
         ELSE IF ~(s1.v.t \in {"int", "bool"} /\ s2.v.t \in {"int", "bool"})
              THEN Raise(p, ERR_OPERAND_TYPE)
         ELSE LET w == set_variable(p, ins.a1, ConstInt(PyInt(s1.v) + PyInt(s2.v))) IN
              IF w.kind # "ok" THEN w ELSE Advance(w.p)

AddInstruction(p, ins) ==
    LET s1 == get_symbol(p, ins.a2) IN
    IF s1.kind # "ok" THEN s1
    ELSE LET s2 == get_symbol(p, ins.a3) IN
         IF s2.kind # "ok" THEN s2
         ELSE IF ~(s1.v.t = "int" /\ s2.v.t = "int") THEN Raise(p, ERR_OPERAND_TYPE)
         ELSE LET w == set_variable(p, ins.a1, ConstInt(s1.v.i + s2.v.i)) IN
              IF w.kind # "ok" THEN w ELSE Advance(w.p)

SubInstruction(p, ins) ==
    LET s1 == get_symbol(p, ins.a2) IN
    IF s1.kind # "ok" THEN s1
    ELSE LET s2 == get_symbol(p, ins.a3) IN
         IF s2.kind # "ok" THEN s2
         ELSE IF ~(s1.v.t = "int" /\ s2.v.t = "int") THEN Raise(p, ERR_OPERAND_TYPE)
         ELSE LET w == set_variable(p, ins.a1, ConstInt(s1.v.i - s2.v.i)) IN
              IF w.kind # "ok" THEN w ELSE Advance(w.p)

MulInstruction(p, ins) ==
    LET s1 == get_symbol(p, ins.a2) IN
    IF s1.kind # "ok" THEN s1
    ELSE LET s2 == get_symbol(p, ins.a3) IN
         IF s2.kind # "ok" THEN s2
         ELSE IF ~(s1.v.t = "int" /\ s2.v.t = "int") THEN Raise(p, ERR_OPERAND_TYPE)
         ELSE LET w == set_variable(p, ins.a1, ConstInt(s1.v.i * s2.v.i)) IN
              IF w.kind # "ok" THEN w ELSE Advance(w.p)

AndInstruction(p, ins) ==
    LET s1 == get_symbol(p, ins.a2) IN
    IF s1.kind # "ok" THEN s1
    ELSE LET s2 == get_symbol(p, ins.a3) IN
         IF s2.kind # "ok" THEN s2
         ELSE IF ~(s1.v.t = "bool" /\ s2.v.t = "bool") THEN Raise(p, ERR_OPERAND_TYPE)
         ELSE LET w == set_variable(p, ins.a1, ConstBool(s1.v.b /\ s2.v.b)) IN
              IF w.kind # "ok" THEN w ELSE Advance(w.p)

OrInstruction(p, ins) ==
    LET s1 == get_symbol(p, ins.a2) IN
    IF s1.kind # "ok" THEN s1
    ELSE LET s2 == get_symbol(p, ins.a3) IN
         IF s2.kind # "ok" THEN s2
         ELSE IF ~(s1.v.t = "bool" /\ s2.v.t = "bool") THEN Raise(p, ERR_OPERAND_TYPE)
         ELSE LET w == set_variable(p, ins.a1, ConstBool(s1.v.b \/ s2.v.b)) IN
              IF w.kind # "ok" THEN w ELSE Advance(w.p)

NotInstruction(p, ins) ==
    LET s1 == get_symbol(p, ins.a2) IN
    IF s1.kind # "ok" THEN s1
    ELSE IF s1.v.t # "bool" THEN Raise(p, ERR_OPERAND_TYPE)
    ELSE LET w == set_variable(p, ins.a1, ConstBool(~s1.v.b)) IN
         IF w.kind # "ok" THEN w ELSE Advance(w.p)

----------------------------------------------------------------------------
(* interpret.py (package): Interpret.execute; interpret.py (script): main  *)

\* main: an IPP23 exception or ExitProgramException ends the process with its
\* exit_code; any other exception is not caught and Python exits with 1;
\* a normal return of execute ends it with 0
MainPhase(r) ==
    CASE r.kind = "ok" -> "Dispatching"
      [] r.kind = "raise" -> "Aborted"
      [] r.kind = "exit" -> "Exited"
      [] r.kind = "crash" -> "Crashed"

Cur == instructions[program_state.pc + 1]

\* faulty variant of Fetched: executes an instruction whatever the slot at pc holds
Fetched_any(ins) ==
    /\ phase = "Dispatching"
    /\ program_state.pc < Len(instructions)
    /\ ins.op # "LABEL"

\* the dispatch loop's fetch: while pc < program_length, instructions[pc]
Fetched(ins) ==
    /\ phase = "Dispatching"
    /\ program_state.pc < Len(instructions)
    /\ \/ Cur = ins
       \/ Cur = Unknown /\ ins.op # "LABEL"

\* opcodes whose first argument is a variable they assign on success
WritesDest == {"MOVE", "INT2CHAR", "STRI2INT", "TYPE", "CONCAT", "STRLEN", "GETCHAR",
               "SETCHAR", "ADD", "SUB", "MUL", "IDIV", "LT", "GT", "EQ", "AND", "OR",
               "NOT", "POPS", "READ"}

NamesOf(u, frame_type) ==
    CASE frame_type = "gf" -> u.gf
      [] frame_type = "tf" -> u.tf
      [] frame_type = "lf" -> u.lfs[Len(u.lfs)]

WithNames(u, frame_type, names) ==
    CASE frame_type = "gf" -> [u EXCEPT !.gf = names]
      [] frame_type = "tf" -> [u EXCEPT !.tf = names]
      [] frame_type = "lf" -> [u EXCEPT !.lfs[Len(u.lfs)] = names]

\* history of declarations and assignments after instruction ins succeeded
UnassignedAfter(u, ins) ==
    CASE ins.op = "CREATEFRAME" -> [u EXCEPT !.tf = {}]
      [] ins.op = "PUSHFRAME" -> [u EXCEPT !.lfs = Append(u.lfs, u.tf)]
      [] ins.op = "POPFRAME" ->
            [u EXCEPT !.tf = u.lfs[Len(u.lfs)], !.lfs = SubSeq(u.lfs, 1, Len(u.lfs) - 1)]
      [] ins.op = "DEFVAR" ->
            WithNames(u, ins.a1.fr, NamesOf(u, ins.a1.fr) \cup {ins.a1.name})
      [] ins.op \in WritesDest ->
            WithNames(u, ins.a1.fr, NamesOf(u, ins.a1.fr) \ {ins.a1.name})
      [] OTHER -> u

\* history of the calls: open lists the CALL (0-based index) behind each
\* call-stack entry, oldest first; matched is the CALL whose entry the last
\* pop took
CallSitesAfter(p, q) ==
    IF Len(q.call_stack) > Len(p.call_stack)
    THEN [call_sites EXCEPT !.open = Append(call_sites.open, p.pc)]
    ELSE IF Len(q.call_stack) < Len(p.call_stack)
         THEN [open |-> SubSeq(call_sites.open, 1, Len(call_sites.open) - 1),
               matched |-> call_sites.open[Len(call_sites.open)]]
    ELSE call_sites

\* history of the data stack: held lists, for each entry, what get_symbol gave
\* for the pushed symbol when the entry was pushed (NONE when the symbol could
\* not be resolved); popped is that of the entry the last pop took
PushedAfter(p, q, ins) ==
    IF Len(q.data_stack) > Len(p.data_stack)
    THEN [pushed EXCEPT !.held = Append(pushed.held, get_symbol(p, ins.a1).v)]
    ELSE IF Len(q.data_stack) < Len(p.data_stack)
         THEN [held |-> SubSeq(pushed.held, 1, Len(pushed.held) - 1),
               popped |-> pushed.held[Len(pushed.held)]]
    ELSE pushed

\* standard output after an instruction: a completed WRITE hands back what it
\* printed
OutputAfter(ins, r) ==
    IF ins.op = "WRITE" /\ r.kind = "ok" THEN output \o r.v.s ELSE output

\* one turn of the dispatch loop with the outcome r of current_instruction.execute
Complete(ins, r) ==
    /\ instructions' = [instructions EXCEPT ![program_state.pc + 1] = ins]
    /\ program_state' = r.p
    /\ phase' = MainPhase(r)
    /\ exit_code' = IF r.kind = "ok" THEN exit_code ELSE r.code
    /\ prev_state' = program_state
    /\ last' = ins
    /\ call_sites' = CallSitesAfter(program_state, r.p)
    /\ unassigned' = IF r.kind = "ok" THEN UnassignedAfter(unassigned, ins) ELSE unassigned
    /\ pushed' = PushedAfter(program_state, r.p, ins)
    /\ output' = OutputAfter(ins, r)
    /\ UNCHANGED <<it, source>>

\* the instructions of alphabet A with the given opcode
OfOpcode(A, opcode) == {i \in A : i.op = opcode}

\* faulty variant of LabelPassStep: walks the list without registering labels
LabelPassStep_no_labels ==
    /\ phase = "LabelPass"
    /\ it < Len(instructions)
    /\ program_state' = Advance(program_state).p
    /\ it' = it + 1
    /\ UNCHANGED <<instructions, phase, exit_code, prev_state, last, call_sites,
                   unassigned, source, pushed, output>>

\* the label pass: one turn of "for instruction in self.instructions"
LabelPassStep ==
    /\ phase = "LabelPass"
    /\ it < Len(instructions)
    /\ LET ins == instructions[it + 1]
           r == IF ins.op = "LABEL" THEN LabelInstruction(program_state, ins)
                ELSE Advance(program_state)
       IN /\ program_state' = r.p
          /\ phase' = IF r.kind = "ok" THEN "LabelPass" ELSE MainPhase(r)
          /\ exit_code' = IF r.kind = "ok" THEN exit_code ELSE r.code
    /\ it' = it + 1
    /\ UNCHANGED <<instructions, prev_state, last, call_sites, unassigned, source,
                   pushed, output>>

\* after the label pass: program_counter = 0, then the dispatch loop
BeginDispatch ==
    /\ phase = "LabelPass"
    /\ it = Len(instructions)
    /\ LET r == set_program_counter(program_state, 0)
       IN /\ program_state' = r.p
          /\ phase' = MainPhase(r)
          /\ exit_code' = IF r.kind = "ok" THEN exit_code ELSE r.code
    /\ UNCHANGED <<instructions, it, prev_state, last, call_sites, unassigned, source,
                   pushed, output>>

\* the dispatch loop ends when pc reaches the end of the list; main returns
Finish ==
    /\ phase = "Dispatching"
    /\ ~(program_state.pc < Len(instructions))
    /\ phase' = "Ended"
    /\ exit_code' = 0
    /\ UNCHANGED <<instructions, program_state, it, prev_state, last, call_sites,
                   unassigned, source, pushed, output>>

(* One action per instruction class: the dispatch loop fetches an          *)
(* instruction of that class and runs its execute method.                  *)

ExecCreateFrame(A) ==
    \E ins \in OfOpcode(A, "CREATEFRAME") :
        Fetched(ins) /\ Complete(ins, CreateFrameInstruction(program_state, ins))

ExecPushFrame(A) ==
    \E ins \in OfOpcode(A, "PUSHFRAME") :
        /\ Len(program_state.lfs) < MaxLocalFrames
        /\ Fetched(ins) /\ Complete(ins, PushFrameInstruction(program_state, ins))

ExecPopFrame(A) ==
    \E ins \in OfOpcode(A, "POPFRAME") :
        Fetched(ins) /\ Complete(ins, PopFrameInstruction(program_state, ins))

ExecDefVar(A) ==
    \E ins \in OfOpcode(A, "DEFVAR") :
        Fetched(ins) /\ Complete(ins, DefVarInstruction(program_state, ins))

ExecMove(A) ==
    \E ins \in OfOpcode(A, "MOVE") :
        Fetched(ins) /\ Complete(ins, MoveInstruction(program_state, ins))

ExecCall(A) ==
    \E ins \in OfOpcode(A, "CALL") :
        /\ Len(program_state.call_stack) < MaxCallDepth
        /\ Fetched(ins) /\ Complete(ins, CallInstruction(program_state, ins))

ExecReturn(A) ==
    \E ins \in OfOpcode(A, "RETURN") :
        Fetched(ins) /\ Complete(ins, ReturnInstruction(program_state, ins))

ExecLabel(A) ==
    \E ins \in OfOpcode(A, "LABEL") :
        Fetched(ins) /\ Complete(ins, LabelInstruction(program_state, ins))

ExecJump(A) ==
    \E ins \in OfOpcode(A, "JUMP") :
        Fetched(ins) /\ Complete(ins, JumpInstruction(program_state, ins))

ExecExit(A) ==
    \E ins \in OfOpcode(A, "EXIT") :
        Fetched(ins) /\ Complete(ins, ExitInstruction(program_state, ins))

ExecGetChar(A) ==
    \E ins \in OfOpcode(A, "GETCHAR") :
        Fetched(ins) /\ Complete(ins, GetCharInstruction(program_state, ins))

ExecIdiv(A) ==
    \E ins \in OfOpcode(A, "IDIV") :
        Fetched(ins) /\ Complete(ins, IdivInstruction(program_state, ins))

ExecEq(A) ==
    \E ins \in OfOpcode(A, "EQ") :
        Fetched(ins) /\ Complete(ins, EqInstruction(program_state, ins))

ExecConcat(A) ==
    \E ins \in OfOpcode(A, "CONCAT") :
        Fetched(ins) /\ Complete(ins, ConcatInstruction(program_state, ins))

ExecStrLen(A) ==
    \E ins \in OfOpcode(A, "STRLEN") :
        Fetched(ins) /\ Complete(ins, StrLenInstruction(program_state, ins))

ExecDprint(A) ==
    \E ins \in OfOpcode(A, "DPRINT") :
        Fetched(ins) /\ Complete(ins, DprintInstruction(program_state, ins))

ExecBreak(A) ==
    \E ins \in OfOpcode(A, "BREAK") :
        Fetched(ins) /\ Complete(ins, BreakInstruction(program_state, ins))

ExecPushs(A) ==
    \E ins \in OfOpcode(A, "PUSHS") :
        /\ Len(program_state.data_stack) < MaxDataStack
        /\ Fetched(ins) /\ Complete(ins, PushsInstruction(program_state, ins))

ExecPops(A) ==
    \E ins \in OfOpcode(A, "POPS") :
        Fetched(ins) /\ Complete(ins, PopsInstruction(program_state, ins))

ExecLt(A) ==
    \E ins \in OfOpcode(A, "LT") :
        Fetched(ins) /\ Complete(ins, LtInstruction(program_state, ins))

ExecGt(A) ==
    \E ins \in OfOpcode(A, "GT") :
        Fetched(ins) /\ Complete(ins, GtInstruction(program_state, ins))

ExecJumpIfEq(A) ==
    \E ins \in OfOpcode(A, "JUMPIFEQ") :
        Fetched(ins) /\ Complete(ins, JumpIfEqInstruction(program_state, ins))

ExecJumpIfNeq(A) ==
    \E ins \in OfOpcode(A, "JUMPIFNEQ") :
        Fetched(ins) /\ Complete(ins, JumpIfNeqInstruction(program_state, ins))

ExecInt2Char(A) ==
    \E ins \in OfOpcode(A, "INT2CHAR") :
        Fetched(ins) /\ Complete(ins, Int2CharInstruction(program_state, ins))

ExecStri2Int(A) ==
    \E ins \in OfOpcode(A, "STRI2INT") :
        Fetched(ins) /\ Complete(ins, Stri2IntInstruction(program_state, ins))

ExecSetChar(A) ==
    \E ins \in OfOpcode(A, "SETCHAR") :
        Fetched(ins) /\ Complete(ins, SetCharInstruction(program_state, ins))

ExecType(A) ==
    \E ins \in OfOpcode(A, "TYPE") :
        Fetched(ins) /\ Complete(ins, TypeInstruction(program_state, ins))

ExecWrite(A) ==
    \E ins \in OfOpcode(A, "WRITE") :
        Fetched(ins) /\ Complete(ins, WriteInstruction(program_state, ins))

ExecAdd(A) ==
    \E ins \in OfOpcode(A, "ADD") :
        Fetched(ins) /\ Complete(ins, AddInstruction(program_state, ins))

ExecSub(A) ==
    \E ins \in OfOpcode(A, "SUB") :
        Fetched(ins) /\ Complete(ins, SubInstruction(program_state, ins))

ExecMul(A) ==
    \E ins \in OfOpcode(A, "MUL") :
        Fetched(ins) /\ Complete(ins, MulInstruction(program_state, ins))

ExecAnd(A) ==
    \E ins \in OfOpcode(A, "AND") :
        Fetched(ins) /\ Complete(ins, AndInstruction(program_state, ins))

ExecOr(A) ==
    \E ins \in OfOpcode(A, "OR") :
        Fetched(ins) /\ Complete(ins, OrInstruction(program_state, ins))

ExecNot(A) ==
    \E ins \in OfOpcode(A, "NOT") :
        Fetched(ins) /\ Complete(ins, NotInstruction(program_state, ins))

\* the state after Interpret.load and Interpret.initialize, for the instruction
\* lists of at most maxlen instructions over alphabet A
InitWith(A, maxlen) ==
    /\ instructions \in UNION {[1..n -> {i \in A : i.op = "LABEL"} \cup {Unknown}] :
                                 n \in 0..maxlen}
    /\ program_state = NewProgram(Len(instructions))
    /\ phase = "LabelPass"
    /\ exit_code = -1
    /\ it = 0
    /\ prev_state = NewProgram(Len(instructions))
    /\ last = NoInstruction
    /\ call_sites = [open |-> << >>, matched |-> -1]
    /\ unassigned = [gf |-> {}, tf |-> {}, lfs |-> << >>]
    /\ source = << >>
    /\ pushed = [held |-> << >>, popped |-> NONE]
    /\ output = << >>

----------------------------------------------------------------------------
(* The control-flow specification: labels, jumps, calls and EXIT *)

LabelNames == {"a", "b"}

ExitOperands ==
    {Const(ConstInt(n)) : n \in {-1, 0, 7, 49, 50}}
    \cup {Const(ConstString(<<55>>)), Const(ConstBool(TRUE)), Const(ConstNil),
          Variable("gf", "x")}

AlphaCtl ==
    {Instruction("LABEL", Label(l), NoArg, NoArg) : l \in LabelNames}
    \cup {Instruction("CALL", Label(l), NoArg, NoArg) : l \in LabelNames}
    \cup {Instruction("JUMP", Label(l), NoArg, NoArg) : l \in LabelNames}
    \cup {Instruction("RETURN", NoArg, NoArg, NoArg),
          Instruction("CREATEFRAME", NoArg, NoArg, NoArg)}
    \cup {Instruction("EXIT", a, NoArg, NoArg) : a \in ExitOperands}

InitCtl == InitWith(AlphaCtl, MaxLenCtl)

NextCtl ==
    \/ LabelPassStep
    \/ BeginDispatch
    \/ Finish
    \/ ExecCreateFrame(AlphaCtl)
    \/ ExecCall(AlphaCtl)
    \/ ExecReturn(AlphaCtl)
    \/ ExecLabel(AlphaCtl)
    \/ ExecJump(AlphaCtl)
    \/ ExecExit(AlphaCtl)

SpecCtl == InitCtl /\ [][NextCtl]_vars

----------------------------------------------------------------------------
(* Claims about control flow, checked under SpecCtl *)

Running == phase = "Dispatching"

\* the 1-based positions of the LABEL instructions that carry name
LabelPositions(name) ==
    {j \in 1..Len(instructions) :
        instructions[j].op = "LABEL" /\ instructions[j].a1.name = name}

\* C1: CALL and RETURN are stack-symmetric.  Every call-stack entry belongs to
\* one executed CALL still waiting for its RETURN; a RETURN that succeeds sets
\* the program counter to the index after the most recent such CALL (so
\* nested calls return in LIFO order) and removes exactly that entry.
C1_CallReturnSymmetric ==
    /\ Len(call_sites.open) = Len(program_state.call_stack)
    /\ (last.op = "RETURN" /\ Running) =>
          /\ instructions[call_sites.matched + 1].op = "CALL"
          /\ program_state.pc = call_sites.matched + 1
          /\ program_state.call_stack =
                SubSeq(prev_state.call_stack, 1, Len(prev_state.call_stack) - 1)

\* a RETURN has returned from the inner of two nested calls made at different places
C1_Witness ==
    /\ last.op = "RETURN" /\ Running
    /\ Len(call_sites.open) >= 1
    /\ call_sites.open[Len(call_sites.open)] # call_sites.matched
    /\ program_state.pc = call_sites.matched + 1

\* C2: label resolution is order-independent.  An executed JUMP or CALL whose
\* label is carried by a LABEL instruction anywhere in the list, before or
\* after it, does not fail and continues right after that LABEL instruction.
C2_LabelOrderIndependent ==
    (last.op \in {"JUMP", "CALL"} /\ LabelPositions(last.a1.name) # {}) =>
        /\ phase \in {"Dispatching", "Ended"}
        /\ \E j \in LabelPositions(last.a1.name) : program_state.pc = (j - 1) + 1

\* a JUMP to a label defined later in the list has been taken
C2_Witness ==
    /\ last.op = "JUMP" /\ Running
    /\ \E j \in LabelPositions(last.a1.name) :
          j - 1 > prev_state.pc /\ program_state.pc = j

\* C3: dispatch starts at program counter 0; at a program counter beyond the
\* last instruction the run ends with exit code 0 and nothing is executed;
\* otherwise the instruction executed is the one at the program counter.
C3_Step ==
    /\ (phase = "LabelPass" /\ phase' = "Dispatching") => program_state'.pc = 0
    /\ (Running /\ program_state.pc >= Len(instructions)) =>
          /\ phase' = "Ended" /\ exit_code' = 0
          /\ UNCHANGED <<instructions, program_state, last, prev_state>>
    /\ (Running /\ program_state.pc < Len(instructions)) =>
          /\ last' = instructions'[program_state.pc + 1]
          /\ prev_state' = program_state
          /\ Cur # Unknown => last' = Cur
          /\ \A j \in 1..Len(instructions) :
                j # program_state.pc + 1 => instructions'[j] = instructions[j]

C3_DispatchByProgramCounter == [][C3_Step]_vars

\* a run that executed instructions and then fell off the end of the list
C3_Witness ==
    /\ phase = "Ended" /\ exit_code = 0
    /\ last # NoInstruction
    /\ program_state.pc >= Len(instructions)

\* C12: a RETURN executed while the call stack is empty aborts with the error
\* of the empty call stack (call_stack_pop raises it with exit code 56); the
\* program counter and the rest of the state stay as they were and nothing
\* executes afterwards.
C12_ReturnWithoutCall ==
    (last.op = "RETURN" /\ prev_state.call_stack = << >>) =>
        /\ phase = "Aborted"
        /\ exit_code = ERR_VAR_NOT_INIT
        /\ program_state.pc = prev_state.pc
        /\ program_state = prev_state

\* a RETURN found the call stack empty after an earlier CALL had been returned from
C12_Witness ==
    /\ last.op = "RETURN" /\ prev_state.call_stack = << >>
    /\ call_sites.matched # -1
    /\ phase = "Aborted"

\* the label names that some LABEL instruction of the list carries
LabelsDefined == {l \in LabelNames : LabelPositions(l) # {}}

\* C17: when two LABEL instructions at different positions carry the same
\* name, the label pass aborts with the Semantic error: the label pass never
\* completes, the dispatch pass executes nothing, and no frame, variable or
\* stack is touched.
C17_DuplicateLabel ==
    (\E l \in LabelNames : Cardinality(LabelPositions(l)) >= 2) =>
        /\ phase \in {"LabelPass", "Aborted"}
        /\ ~(phase = "LabelPass" /\ it = Len(instructions))
        /\ phase = "Aborted" => exit_code = ERR_SEMANTICS
        /\ last = NoInstruction
        /\ program_state.gf = EmptyFrame /\ program_state.tf = EmptyFrame
        /\ ~program_state.tf_valid /\ program_state.lfs = << >>
        /\ program_state.data_stack = << >> /\ program_state.call_stack = << >>

\* the label pass has aborted at the second LABEL of a name, with more of the list to come
C17_Witness ==
    /\ phase = "Aborted" /\ exit_code = ERR_SEMANTICS
    /\ last = NoInstruction
    /\ it < Len(instructions)
    /\ instructions[it].op = "LABEL"
    /\ \E j \in LabelPositions(instructions[it].a1.name) : j < it

\* C18: in every state of the dispatch pass the label table is the one the
\* label pass built (each name at the index after its LABEL instruction);
\* executing a LABEL instruction during dispatch raises nothing and leaves
\* the table as it was.
C18_LabelTableImmutable ==
    /\ (phase \in {"Dispatching", "Ended", "Exited"}
           \/ (phase = "Aborted" /\ last # NoInstruction)) =>
          /\ DOMAIN program_state.labels = LabelsDefined
          /\ \A l \in LabelsDefined : LabelPositions(l) = {program_state.labels[l]}
    /\ last.op = "LABEL" =>
          /\ phase \in {"Dispatching", "Ended"}
          /\ program_state.labels = prev_state.labels

\* LABEL b, between LABEL a and a CALL a, has been executed a second time
C18_Witness ==
    /\ Len(instructions) >= 3
    /\ instructions[1].op = "LABEL" /\ instructions[2].op = "LABEL"
    /\ instructions[3].op = "CALL" /\ instructions[3].a1 = instructions[1].a1
    /\ last = instructions[2]
    /\ Len(program_state.call_stack) = 1
    /\ Running

\* C19: an executed JUMP or CALL whose label no LABEL instruction of the list
\* carries aborts with the Semantic error and the program counter stays at
\* that instruction.
C19_UndefinedLabel ==
    (last.op \in {"JUMP", "CALL"} /\ LabelPositions(last.a1.name) = {}) =>
        /\ phase = "Aborted"
        /\ exit_code = ERR_SEMANTICS
        /\ program_state.pc = prev_state.pc

\* a CALL of an undefined label has aborted in a program that defines another label
C19_Witness ==
    /\ last.op = "CALL" /\ LabelPositions(last.a1.name) = {}
    /\ LabelsDefined # {}
    /\ phase = "Aborted"
    /\ program_state.pc = prev_state.pc

----------------------------------------------------------------------------
(* The data specification: a global variable, EXIT and GETCHAR *)

DataValues ==
    {ConstInt(7), ConstInt(50), ConstString(<<97, 98>>), ConstBool(TRUE), ConstNil}

GetCharStrings == {Const(ConstString(<<97, 98>>)), Const(ConstString(<< >>)),
                   Const(ConstInt(7)), Variable("gf", "x")}

GetCharIndexes == {Const(ConstInt(n)) : n \in {-1, 0, 1, 2}}
                  \cup {Const(ConstBool(TRUE)), Variable("gf", "x")}

AlphaData ==
    {Instruction("DEFVAR", Variable("gf", "x"), NoArg, NoArg)}
    \cup {Instruction("MOVE", Variable("gf", "x"), Const(v), NoArg) : v \in DataValues}
    \cup {Instruction("EXIT", a, NoArg, NoArg) : a \in ExitOperands}
    \cup {Instruction("GETCHAR", Variable("gf", "x"), a, b) :
            a \in GetCharStrings, b \in GetCharIndexes}

InitData == InitWith(AlphaData, MaxLenData)

NextData ==
    \/ LabelPassStep
    \/ BeginDispatch
    \/ Finish
    \/ ExecDefVar(AlphaData)
    \/ ExecMove(AlphaData)
    \/ ExecExit(AlphaData)
    \/ ExecGetChar(AlphaData)

SpecData == InitData /\ [][NextData]_vars

\* the exit codes of the error categories (ErrorType)
ErrorCodes == {10, 11, 12, 31, 32, 52, 53, 54, 55, 56, 57, 58, 99}

\* C4: EXIT accepts exactly the Int values 0..49.  With such an operand the
\* run ends at once with that exit code; an Int outside 0..49 aborts with
\* OperandValue and any other type with OperandType; an operand that cannot
\* be resolved aborts with the error of the resolution.  In no case does an
\* instruction execute after EXIT.
C4_ExitContract ==
    last.op = "EXIT" =>
        LET s == get_symbol(prev_state, last.a1) IN
        /\ phase \in {"Exited", "Aborted"}
        /\ program_state = prev_state
        /\ (s.kind = "ok" /\ s.v.t = "int" /\ s.v.i >= 0 /\ s.v.i <= 49) =>
              (phase = "Exited" /\ exit_code = s.v.i)
        /\ (s.kind = "ok" /\ s.v.t = "int" /\ (s.v.i < 0 \/ s.v.i > 49)) =>
              (phase = "Aborted" /\ exit_code = ERR_OPERAND_VALUE)
        /\ (s.kind = "ok" /\ s.v.t # "int") =>
              (phase = "Aborted" /\ exit_code = ERR_OPERAND_TYPE)
        /\ s.kind # "ok" => (phase = "Aborted" /\ exit_code = s.code)

\* EXIT of a variable that holds Int 50 has aborted with OperandValue
C4_Witness ==
    /\ last.op = "EXIT" /\ last.a1.k = "var"
    /\ get_symbol(prev_state, last.a1).v = ConstInt(50)
    /\ phase = "Aborted" /\ exit_code = ERR_OPERAND_VALUE

\* C5: a run ends by falling off the end with exit code 0, by EXIT with a
\* code in 0..49, or by an abort with the code of an error category; it
\* never ends otherwise (an exception that main does not catch).
C5_ThreeOutcomes ==
    /\ phase \in {"LabelPass", "Dispatching", "Ended", "Exited", "Aborted"}
    /\ phase = "Ended" => exit_code = 0
    /\ phase = "Exited" => exit_code \in 0..49
    /\ phase = "Aborted" => exit_code \in ErrorCodes

----------------------------------------------------------------------------
(* The frame specification: frames, variables and a loop *)

FrameTypes == {"gf", "tf", "lf"}
VarNames == {"x", "y"}

FrameValues == {ConstInt(1), ConstString(<<97, 98>>)}

AlphaFrame ==
    {Instruction("CREATEFRAME", NoArg, NoArg, NoArg),
     Instruction("PUSHFRAME", NoArg, NoArg, NoArg),
     Instruction("POPFRAME", NoArg, NoArg, NoArg),
     Instruction("LABEL", Label("a"), NoArg, NoArg),
     Instruction("JUMP", Label("a"), NoArg, NoArg),
     Instruction("DEFVAR", Variable("tf", "y"), NoArg, NoArg)}
    \cup {Instruction("DEFVAR", Variable(f, "x"), NoArg, NoArg) : f \in FrameTypes}
    \cup {Instruction("MOVE", Variable(f, "x"), Const(v), NoArg) :
            f \in FrameTypes, v \in FrameValues}
    \cup {Instruction("MOVE", Variable("gf", "x"), Variable(f, "x"), NoArg) :
            f \in {"tf", "lf"}}
    \cup {Instruction("MOVE", Variable("tf", "y"), Variable("gf", "x"), NoArg)}

InitFrame == InitWith(AlphaFrame, MaxLenFrame)

NextFrame ==
    \/ LabelPassStep
    \/ BeginDispatch
    \/ Finish
    \/ ExecCreateFrame(AlphaFrame)
    \/ ExecPushFrame(AlphaFrame)
    \/ ExecPopFrame(AlphaFrame)
    \/ ExecDefVar(AlphaFrame)
    \/ ExecMove(AlphaFrame)
    \/ ExecLabel(AlphaFrame)
    \/ ExecJump(AlphaFrame)

SpecFrame == InitFrame /\ [][NextFrame]_vars

\* frame_type names a frame that exists in state p
FrameExists(p, frame_type) == get_frame(p, frame_type).kind = "ok"

\* what the local-frame stack holds, bottom first
StackView(p) == [k \in 1..Len(p.lfs) |-> FrameView(p, p.lfs[k])]

NotFailed == phase \in {"Dispatching", "Ended"}

\* C6: resolving a variable of an existing frame fails with NoSuchVariable
\* when the name is not declared in that frame and with
\* UninitializedVariable when it is declared and was never assigned; the two
\* errors differ.  An executed MOVE whose source is such a variable aborts
\* with that error.
C6_UndeclaredVersusUnassigned ==
    /\ ERR_NO_EXIST_VAR # ERR_VAR_NOT_INIT
    /\ \A f \in FrameTypes, n \in VarNames :
          FrameExists(program_state, f) =>
              LET r == get_symbol(program_state, Variable(f, n)) IN
              /\ n \notin DOMAIN FrameOf(program_state, f) =>
                    (r.kind = "raise" /\ r.code = ERR_NO_EXIST_VAR)
              /\ n \in NamesOf(unassigned, f) =>
                    (r.kind = "raise" /\ r.code = ERR_VAR_NOT_INIT)
    /\ (/\ last.op = "MOVE" /\ last.a2.k = "var"
        /\ FrameExists(prev_state, last.a2.fr)
        /\ last.a2.name \notin DOMAIN FrameOf(prev_state, last.a2.fr)) =>
          (phase = "Aborted" /\ exit_code = ERR_NO_EXIST_VAR)

\* C7: a DEFVAR of a name that the addressed frame already holds aborts with
\* the Semantic error and changes nothing, whether or not the variable has
\* a value.
C7_RedefinitionFails ==
    (/\ last.op = "DEFVAR"
     /\ FrameExists(prev_state, last.a1.fr)
     /\ last.a1.name \in DOMAIN FrameOf(prev_state, last.a1.fr)) =>
        /\ phase = "Aborted"
        /\ exit_code = ERR_SEMANTICS
        /\ program_state = prev_state

\* a DEFVAR of a name whose variable already holds a value has aborted
C7_Witness ==
    /\ last.op = "DEFVAR"
    /\ FrameExists(prev_state, last.a1.fr)
    /\ last.a1.name \in DOMAIN FrameOf(prev_state, last.a1.fr)
    /\ CellValue(prev_state, FrameOf(prev_state, last.a1.fr)[last.a1.name]) # NONE
    /\ phase = "Aborted"

\* C8: PUSHFRAME with a valid temporary frame adds one local frame holding
\* the variables of the temporary frame (names, values, types, initialised
\* or not), leaves the frames below unchanged and invalidates the temporary
\* frame; with an invalid temporary frame it aborts with NoSuchFrame and the
\* local-frame stack is unchanged.
C8_PushFrame ==
    last.op = "PUSHFRAME" =>
        IF prev_state.tf_valid
        THEN /\ NotFailed
             /\ Len(program_state.lfs) = Len(prev_state.lfs) + 1
             /\ FrameView(program_state, program_state.lfs[Len(program_state.lfs)])
                   = FrameView(prev_state, prev_state.tf)
             /\ \A k \in 1..Len(prev_state.lfs) :
                   StackView(program_state)[k] = StackView(prev_state)[k]
             /\ ~program_state.tf_valid
        ELSE /\ phase = "Aborted"
             /\ exit_code = ERR_NO_EXIST_FRAME
             /\ StackView(program_state) = StackView(prev_state)

\* a temporary frame with an initialised and an uninitialised variable was
\* pushed onto a non-empty stack
C8_Witness ==
    /\ last.op = "PUSHFRAME" /\ NotFailed
    /\ prev_state.lfs # << >>
    /\ \E n \in DOMAIN prev_state.tf : CellValue(prev_state, prev_state.tf[n]) # NONE
    /\ \E n \in DOMAIN prev_state.tf : CellValue(prev_state, prev_state.tf[n]) = NONE
    /\ Len(program_state.lfs) = Len(prev_state.lfs) + 1

\* C9: POPFRAME with a non-empty local-frame stack removes the top frame,
\* makes the temporary frame valid with exactly the variables of the removed
\* frame and leaves the other local frames unchanged; with an empty stack it
\* aborts with NoSuchFrame and the temporary frame keeps validity and content.
C9_PopFrame ==
    last.op = "POPFRAME" =>
        IF prev_state.lfs # << >>
        THEN /\ NotFailed
             /\ Len(program_state.lfs) = Len(prev_state.lfs) - 1
             /\ \A k \in 1..Len(program_state.lfs) :
                   StackView(program_state)[k] = StackView(prev_state)[k]
             /\ program_state.tf_valid
             /\ FrameView(program_state, program_state.tf)
                   = StackView(prev_state)[Len(prev_state.lfs)]
        ELSE /\ phase = "Aborted"
             /\ exit_code = ERR_NO_EXIST_FRAME
             /\ program_state.tf_valid = prev_state.tf_valid
             /\ FrameView(program_state, program_state.tf)
                   = FrameView(prev_state, prev_state.tf)

\* the upper of two local frames was popped over a valid temporary frame that
\* held something else
C9_Witness ==
    /\ last.op = "POPFRAME" /\ NotFailed
    /\ prev_state.tf_valid
    /\ program_state.lfs # << >>
    /\ FrameView(prev_state, prev_state.tf) # StackView(prev_state)[Len(prev_state.lfs)]
    /\ DOMAIN program_state.tf # {}

\* C10: CREATEFRAME never fails; it leaves the temporary frame valid and
\* empty and the global frame and every local frame unchanged.
C10_CreateFrame ==
    last.op = "CREATEFRAME" =>
        /\ NotFailed
        /\ program_state.tf_valid
        /\ DOMAIN program_state.tf = {}
        /\ FrameView(program_state, program_state.gf) = FrameView(prev_state, prev_state.gf)
        /\ StackView(program_state) = StackView(prev_state)

\* CREATEFRAME ran over a valid, populated temporary frame with global and local variables
C10_Witness ==
    /\ last.op = "CREATEFRAME" /\ NotFailed
    /\ prev_state.tf_valid /\ DOMAIN prev_state.tf # {}
    /\ DOMAIN prev_state.gf # {}
    /\ prev_state.lfs # << >>
    /\ DOMAIN program_state.tf = {}

----------------------------------------------------------------------------
(* The data-stack specification: frames, variables, PUSHS and POPS *)

StackValues == {ConstInt(1), ConstString(<<97, 98>>)}

AlphaStack ==
    {Instruction("CREATEFRAME", NoArg, NoArg, NoArg),
     Instruction("PUSHFRAME", NoArg, NoArg, NoArg),
     Instruction("POPFRAME", NoArg, NoArg, NoArg)}
    \cup {Instruction("DEFVAR", Variable(f, "x"), NoArg, NoArg) : f \in FrameTypes}
    \cup {Instruction("MOVE", Variable(f, "x"), Const(ConstInt(1)), NoArg) : f \in FrameTypes}
    \cup {Instruction("MOVE", Variable("gf", "x"), Const(ConstString(<<97, 98>>)), NoArg),
          Instruction("MOVE", Variable("gf", "x"), Variable("lf", "x"), NoArg)}
    \cup {Instruction("PUSHS", Const(v), NoArg, NoArg) : v \in StackValues}
    \cup {Instruction("PUSHS", Variable(f, "x"), NoArg, NoArg) : f \in FrameTypes}
    \cup {Instruction("POPS", Variable(f, "x"), NoArg, NoArg) : f \in FrameTypes}

InitStack == InitWith(AlphaStack, MaxLenStack)

NextStack ==
    \/ LabelPassStep
    \/ BeginDispatch
    \/ Finish
    \/ ExecCreateFrame(AlphaStack)
    \/ ExecPushFrame(AlphaStack)
    \/ ExecPopFrame(AlphaStack)
    \/ ExecDefVar(AlphaStack)
    \/ ExecMove(AlphaStack)
    \/ ExecPushs(AlphaStack)
    \/ ExecPops(AlphaStack)

SpecStack == InitStack /\ [][NextStack]_vars

\* the variable operands of an instruction
VarOperands(ins) == {a \in {ins.a1, ins.a2, ins.a3} : a.k = "var"}

\* the variable operands an instruction reads
ReadOperands(ins) ==
    CASE ins.op \in {"DEFVAR", "POPS"} -> {}
      [] ins.op = "PUSHS" -> VarOperands(ins)
      [] OTHER -> {a \in {ins.a2, ins.a3} : a.k = "var"}

\* nothing but a missing frame stands in the way of instruction ins in state p:
\* each operand it reads from an existing frame resolves, and a POPS finds a
\* value on the data stack
NothingElseFails(p, ins) ==
    /\ \A a \in ReadOperands(ins) : FrameExists(p, a.fr) => get_symbol(p, a).kind = "ok"
    /\ ins.op = "POPS" =>
          /\ p.data_stack # << >>
          /\ SymbolValue(p, p.data_stack[Len(p.data_stack)]) # NONE

\* C11: an executed instruction that declares, reads or writes a TF variable
\* while the temporary frame is invalid, or an LF variable while the
\* local-frame stack is empty, aborts with NoSuchFrame; an LF reference
\* resolves to the top of the local-frame stack; a GF reference never raises
\* NoSuchFrame.
C11_FrameResolution ==
    /\ (/\ last # NoInstruction
        /\ \E a \in VarOperands(last) : ~FrameExists(prev_state, a.fr)
        /\ NothingElseFails(prev_state, last)) =>
          (phase = "Aborted" /\ exit_code = ERR_NO_EXIST_FRAME)
    /\ program_state.lfs # << >> =>
          LET top == program_state.lfs[Len(program_state.lfs)] IN
          \A n \in VarNames :
              LET r == get_symbol(program_state, Variable("lf", n)) IN
              /\ n \notin DOMAIN top => (r.kind = "raise" /\ r.code = ERR_NO_EXIST_VAR)
              /\ (n \in DOMAIN top /\ r.kind = "ok") => r.v = CellValue(program_state, top[n])
    /\ FrameExists(program_state, "gf")
    /\ (/\ VarOperands(last) # {}
        /\ \A a \in VarOperands(last) : a.fr = "gf") => exit_code # ERR_NO_EXIST_FRAME

\* C13: the data stack is a LIFO of resolved symbols.  PUSHS of a symbol that
\* resolves adds one entry; a POPS that finds an entry pushed from a resolved
\* symbol, with a destination it can write, removes the newest entry and
\* leaves in the destination the value and type that symbol had when it was
\* pushed; POPS on an empty data stack aborts with the empty-stack error.
C13_DataStackLifo ==
    /\ Len(pushed.held) = Len(program_state.data_stack)
    /\ (last.op = "PUSHS" /\ get_symbol(prev_state, last.a1).kind = "ok") =>
          /\ NotFailed
          /\ Len(program_state.data_stack) = Len(prev_state.data_stack) + 1
    /\ (/\ last.op = "POPS"
        /\ prev_state.data_stack # << >>
        /\ pushed.popped # NONE
        /\ set_variable(prev_state, last.a1, pushed.popped).kind = "ok") =>
          /\ NotFailed
          /\ program_state.data_stack =
                SubSeq(prev_state.data_stack, 1, Len(prev_state.data_stack) - 1)
          /\ get_symbol(program_state, last.a1).v = pushed.popped
    /\ (last.op = "POPS" /\ prev_state.data_stack = << >>) =>
          (phase = "Aborted" /\ exit_code = ERR_VAR_NOT_INIT)

----------------------------------------------------------------------------
(* The arithmetic specification: a global variable, IDIV and EQ *)

ArithValues ==
    {ConstInt(n) : n \in {-7, 0, 2, 7}}
    \cup {ConstString(<<97>>), ConstString(<< >>), ConstBool(TRUE), ConstBool(FALSE),
          ConstNil}

ArithOperands == {Const(v) : v \in ArithValues} \cup {Variable("gf", "x")}

AlphaArith ==
    {Instruction("DEFVAR", Variable("gf", v), NoArg, NoArg) : v \in {"x", "r"}}
    \cup {Instruction("MOVE", Variable("gf", "x"), Const(v), NoArg) : v \in ArithValues}
    \cup {Instruction("IDIV", Variable("gf", d), a, b) :
            d \in {"x", "r"}, a \in ArithOperands, b \in ArithOperands}
    \cup {Instruction("EQ", Variable("gf", "r"), a, b) :
            a \in ArithOperands, b \in ArithOperands}

InitArith == InitWith(AlphaArith, MaxLenArith)

NextArith ==
    \/ LabelPassStep
    \/ BeginDispatch
    \/ Finish
    \/ ExecDefVar(AlphaArith)
    \/ ExecMove(AlphaArith)
    \/ ExecIdiv(AlphaArith)
    \/ ExecEq(AlphaArith)

SpecArith == InitArith /\ [][NextArith]_vars

\* C14: an executed IDIV whose operands resolve to Ints, the second being 0,
\* aborts with OperandValue whatever the first is, and the destination (like
\* the rest of the state) is not written.
C14_IdivByZero ==
    (/\ last.op = "IDIV"
     /\ get_symbol(prev_state, last.a2).v.t = "int"
     /\ get_symbol(prev_state, last.a3).v = ConstInt(0)) =>
        /\ phase = "Aborted"
        /\ exit_code = ERR_OPERAND_VALUE
        /\ program_state = prev_state

\* a negative Int held by a variable was divided by 0 into that same, writable variable
C14_Witness ==
    /\ last.op = "IDIV" /\ last.a1 = last.a2
    /\ get_symbol(prev_state, last.a2).v.t = "int"
    /\ get_symbol(prev_state, last.a2).v.i < 0
    /\ get_symbol(prev_state, last.a3).v = ConstInt(0)
    /\ exit_code = ERR_OPERAND_VALUE

\* C20: an executed EQ whose operands resolve and whose destination can be
\* written stores a Bool, true iff the operands are the same typed value,
\* when the operand types are identical or at least one operand is Nil; only
\* two different non-Nil types abort with OperandType.
C20_EqAllowsNil ==
    LET s1 == get_symbol(prev_state, last.a2)
        s2 == get_symbol(prev_state, last.a3)
    IN (/\ last.op = "EQ"
        /\ s1.kind = "ok" /\ s2.kind = "ok"
        /\ set_variable(prev_state, last.a1, NONE).kind = "ok") =>
          IF s1.v.t = s2.v.t \/ s1.v.t = "nil" \/ s2.v.t = "nil"
          THEN /\ NotFailed
               /\ get_symbol(program_state, last.a1).v = ConstBool(s1.v = s2.v)
          ELSE /\ phase = "Aborted"
               /\ exit_code = ERR_OPERAND_TYPE

----------------------------------------------------------------------------
(* The loading specification: Interpret.load on a document whose           *)
(* instruction elements carry any order attributes, then the two passes.   *)
(* A document element is [order, ins]: its order attribute and the         *)
(* instruction its opcode and arguments describe.                          *)

\* sorted with e put behind the elements whose order is not greater
Insert(e, sorted) ==
    LET k == Cardinality({j \in 1..Len(sorted) : ~(e.order < sorted[j].order)})
    IN SubSeq(sorted, 1, k) \o <<e>> \o SubSeq(sorted, k + 1, Len(sorted))

RECURSIVE sort(_)
\* list.sort() with Instruction.__lt__: stable, ascending by order
sort(seq) ==
    IF seq = << >> THEN << >>
    ELSE Insert(seq[Len(seq)], sort(SubSeq(seq, 1, Len(seq) - 1)))

\* faulty variant of check_instructions: no check for duplicate orders
check_instructions_first(seq) ==
    IF seq = << >> THEN TRUE
    ELSE ~(seq[1].order < 0)

\* Interpret._check_instructions on the sorted list: TRUE when nothing is raised
check_instructions(seq) ==
    IF seq = << >> THEN TRUE
    ELSE /\ ~(seq[1].order < 0)
         /\ \A j \in 2..Len(seq) : seq[j].order # seq[j - 1].order

\* the list args that Interpret.load hands to the factory
ArgsOf(ins) == SelectSeq(<<ins.a1, ins.a2, ins.a3>>, LAMBDA a : a.k # "none")

\* InstructionFactory._is_var, _is_symbol, _is_label, _is_type
is_var(arg) == arg.k = "var"
is_symbol(arg) == arg.k = "var" \/ arg.k = "const"
is_label(arg) == arg.k = "label"
is_type(arg) == arg.k = "type"

\* faulty variant of validate_args: only the number of arguments is checked
validate_args_count(opcode, args) ==
    CASE opcode \in {"CREATEFRAME", "PUSHFRAME", "POPFRAME", "RETURN", "BREAK"} ->
            Len(args) = 0
      [] opcode \in {"DEFVAR", "POPS", "CALL", "LABEL", "JUMP", "EXIT", "PUSHS", "WRITE",
                     "DPRINT"} ->
            Len(args) = 1
      [] opcode \in {"MOVE", "INT2CHAR", "TYPE", "STRLEN", "NOT", "READ"} ->
            Len(args) = 2
      [] OTHER -> Len(args) = 3

\* _validate_args of the factory of each opcode: TRUE when nothing is raised
validate_args(opcode, args) ==
    CASE opcode \in {"CREATEFRAME", "PUSHFRAME", "POPFRAME", "RETURN", "BREAK"} ->
            Len(args) = 0
      [] opcode \in {"DEFVAR", "POPS"} ->
            Len(args) = 1 /\ is_var(args[1])
      [] opcode \in {"CALL", "LABEL", "JUMP"} ->
            Len(args) = 1 /\ is_label(args[1])
      [] opcode \in {"EXIT", "PUSHS", "WRITE", "DPRINT"} ->
            Len(args) = 1 /\ is_symbol(args[1])
      [] opcode \in {"MOVE", "INT2CHAR", "TYPE", "STRLEN", "NOT"} ->
            Len(args) = 2 /\ is_var(args[1]) /\ is_symbol(args[2])
      [] opcode = "READ" ->
            Len(args) = 2 /\ is_var(args[1]) /\ is_type(args[2])
      [] opcode \in {"JUMPIFEQ", "JUMPIFNEQ"} ->
            Len(args) = 3 /\ is_label(args[1]) /\ is_symbol(args[2]) /\ is_symbol(args[3])
      [] opcode \in {"STRI2INT", "CONCAT", "GETCHAR", "SETCHAR", "ADD", "SUB", "MUL",
                     "IDIV", "LT", "GT", "EQ", "AND", "OR"} ->
            Len(args) = 3 /\ is_var(args[1]) /\ is_symbol(args[2]) /\ is_symbol(args[3])
      [] OTHER -> FALSE

\* factory.create_instruction on every element of the document: TRUE when no
\* factory raises
create_instructions(src) ==
    \A j \in 1..Len(src) : validate_args(src[j].ins.op, ArgsOf(src[j].ins))

\* the instruction objects Interpret.load builds (order is the attribute minus
\* 1), sorted
Loaded(src) == sort([j \in 1..Len(src) |-> [order |-> src[j].order - 1, ins |-> src[j].ins]])

\* Interpret.load, then Interpret.initialize
Load ==
    /\ phase = "Loading"
    /\ LET sorted == Loaded(source) IN
       IF ~create_instructions(source)
       THEN /\ phase' = "Aborted"
            /\ exit_code' = ERR_SYNTAX
            /\ UNCHANGED <<instructions, program_state, prev_state>>
       ELSE IF check_instructions(sorted)
       THEN /\ instructions' = [j \in 1..Len(sorted) |-> sorted[j].ins]
            /\ program_state' = NewProgram(Len(sorted))
            /\ prev_state' = NewProgram(Len(sorted))
            /\ phase' = "LabelPass"
            /\ UNCHANGED exit_code
       ELSE /\ phase' = "Aborted"
            /\ exit_code' = ERR_XML_STRUCT
            /\ UNCHANGED <<instructions, program_state, prev_state>>
    /\ UNCHANGED <<it, last, call_sites, unassigned, source, pushed, output>>

AlphaLoad ==
    {Instruction("CREATEFRAME", NoArg, NoArg, NoArg),
     Instruction("PUSHFRAME", NoArg, NoArg, NoArg),
     Instruction("POPFRAME", NoArg, NoArg, NoArg),
     Instruction("LABEL", Label("a"), NoArg, NoArg)}

InitLoad ==
    /\ source \in UNION {[1..n -> [order : 0..MaxOrder, ins : AlphaLoad]] :
                           n \in 0..MaxLenLoad}
    /\ instructions = << >>
    /\ program_state = NewProgram(0)
    /\ phase = "Loading"
    /\ exit_code = -1
    /\ it = 0
    /\ prev_state = NewProgram(0)
    /\ last = NoInstruction
    /\ call_sites = [open |-> << >>, matched |-> -1]
    /\ unassigned = [gf |-> {}, tf |-> {}, lfs |-> << >>]
    /\ pushed = [held |-> << >>, popped |-> NONE]
    /\ output = << >>

NextLoad ==
    \/ Load
    \/ LabelPassStep
    \/ BeginDispatch
    \/ Finish
    \/ ExecCreateFrame(AlphaLoad)
    \/ ExecPushFrame(AlphaLoad)
    \/ ExecPopFrame(AlphaLoad)
    \/ ExecLabel(AlphaLoad)

SpecLoad == InitLoad /\ [][NextLoad]_vars

\* the order attributes of the document
Ordinals == {source[j].order : j \in 1..Len(source)}

\* C15: if the order attributes, sorted, are not contiguous (some ordinal
\* other than the smallest has no predecessor among them), loading fails with
\* the structural error and no instruction is executed.
C15_ContiguousOrdinals ==
    (/\ phase # "Loading"
     /\ \E o \in Ordinals : (\E q \in Ordinals : q < o) /\ (o - 1) \notin Ordinals) =>
        /\ phase = "Aborted"
        /\ exit_code = ERR_XML_STRUCT
        /\ last = NoInstruction

\* C16: if two elements carry the same ordinal or the smallest ordinal is
\* below 1, loading fails with the structural error and nothing executes;
\* otherwise the list used by the label pass and the dispatch loop holds the
\* instructions of the document in strictly ascending order of their ordinals.
C16_UniqueAscendingOrdinals ==
    phase # "Loading" =>
        IF \/ \E i, j \in 1..Len(source) : i # j /\ source[i].order = source[j].order
           \/ \E o \in Ordinals : o < 1
        THEN /\ phase = "Aborted"
             /\ exit_code = ERR_XML_STRUCT
             /\ last = NoInstruction
             /\ instructions = << >>
        ELSE /\ phase # "Aborted" \/ exit_code # ERR_XML_STRUCT
             /\ Len(instructions) = Len(source)
             /\ \A j \in 1..Len(source) :
                   instructions[Cardinality({o \in Ordinals : o <= source[j].order})]
                      = source[j].ins

\* a document whose elements were not in ordinal order ran to its end, in ordinal order
C16_Witness ==
    /\ phase = "Ended"
    /\ \E i, j \in 1..Len(source) :
          i < j /\ source[i].order > source[j].order /\ source[i].ins # source[j].ins
    /\ last = source[CHOOSE j \in 1..Len(source) :
                        \A i \in 1..Len(source) : source[i].order <= source[j].order].ins

----------------------------------------------------------------------------
(* The relational specification: a global variable, LT and GT *)

RelValues ==
    {ConstInt(n) : n \in {-7, 0, 7}}
    \cup {ConstString(<<97>>), ConstString(<<97, 98>>), ConstString(<<98>>),
          ConstString(<< >>), ConstBool(TRUE), ConstBool(FALSE), ConstNil}

RelOperands == {Const(v) : v \in RelValues} \cup {Variable("gf", "x")}

AlphaRel ==
    {Instruction("DEFVAR", Variable("gf", v), NoArg, NoArg) : v \in {"x", "r"}}
    \cup {Instruction("MOVE", Variable("gf", "x"), Const(v), NoArg) : v \in RelValues}
    \cup {Instruction(o, Variable("gf", "r"), a, b) :
            o \in {"LT", "GT"}, a \in RelOperands, b \in RelOperands}

InitRel == InitWith(AlphaRel, MaxLenRel)

NextRel ==
    \/ LabelPassStep
    \/ BeginDispatch
    \/ Finish
    \/ ExecDefVar(AlphaRel)
    \/ ExecMove(AlphaRel)
    \/ ExecLt(AlphaRel)
    \/ ExecGt(AlphaRel)

SpecRel == InitRel /\ [][NextRel]_vars

\* string a comes before string b: a is a proper prefix of b, or at the first
\* position where they differ a has the smaller character
StringBefore(a, b) ==
    \E k \in 1..Len(b) :
        /\ \A j \in 1..(k - 1) : j <= Len(a) /\ a[j] = b[j]
        /\ k > Len(a) \/ a[k] < b[k]

\* value a is below value b of the same, non-Nil type
Below(a, b) ==
    CASE a.t = "int" -> a.i < b.i
      [] a.t = "bool" -> ~a.b /\ b.b
      [] a.t = "string" -> StringBefore(a.s, b.s)
      [] OTHER -> FALSE

\* C21: an executed LT or GT whose operands resolve and whose destination can
\* be written aborts with OperandType, nothing written, when the operand
\* types differ or both are Nil; otherwise the destination receives the Bool
\* of the ordering and the program counter advances by 1.
C21_LtGtContract ==
    LET s1 == get_symbol(prev_state, last.a2)
        s2 == get_symbol(prev_state, last.a3)
    IN (/\ last.op \in {"LT", "GT"}
        /\ s1.kind = "ok" /\ s2.kind = "ok"
        /\ set_variable(prev_state, last.a1, NONE).kind = "ok") =>
          IF s1.v.t # s2.v.t \/ s1.v.t = "nil"
          THEN /\ phase = "Aborted"
               /\ exit_code = ERR_OPERAND_TYPE
               /\ program_state = prev_state
          ELSE /\ NotFailed
               /\ get_symbol(program_state, last.a1).v =
                     ConstBool(IF last.op = "LT" THEN Below(s1.v, s2.v)
                               ELSE Below(s2.v, s1.v))
               /\ program_state.pc = prev_state.pc + 1

\* LT of two Nil operands has aborted with OperandType
C21_Witness ==
    /\ last.op = "LT"
    /\ get_symbol(prev_state, last.a2).v = ConstNil
    /\ get_symbol(prev_state, last.a3).v = ConstNil
    /\ set_variable(prev_state, last.a1, NONE).kind = "ok"
    /\ exit_code = ERR_OPERAND_TYPE

----------------------------------------------------------------------------
(* The conditional-jump specification: LABEL, JUMPIFEQ and JUMPIFNEQ *)

JumpValues == {ConstInt(0), ConstString(<<110, 105, 108>>), ConstNil}

AlphaJump ==
    {Instruction("LABEL", Label("a"), NoArg, NoArg)}
    \cup {Instruction(o, Label(l), Const(a), Const(b)) :
            o \in {"JUMPIFEQ", "JUMPIFNEQ"}, l \in LabelNames,
            a \in JumpValues \cup {ConstInt(1)}, b \in JumpValues}

InitJump == InitWith(AlphaJump, MaxLenJump)

NextJump ==
    \/ LabelPassStep
    \/ BeginDispatch
    \/ Finish
    \/ ExecLabel(AlphaJump)
    \/ ExecJumpIfEq(AlphaJump)
    \/ ExecJumpIfNeq(AlphaJump)

SpecJump == InitJump /\ [][NextJump]_vars

\* C22: an executed JUMPIFEQ or JUMPIFNEQ whose operands resolve aborts with
\* OperandType, the program counter unchanged, unless the operand types are
\* equal or one operand is Nil; otherwise JUMPIFEQ continues at the label's
\* address iff the operands are equal (the same typed value) and else at the
\* next instruction, and JUMPIFNEQ does the opposite.
C22_ConditionalJumps ==
    LET s1 == get_symbol(prev_state, last.a2)
        s2 == get_symbol(prev_state, last.a3)
    IN (/\ last.op \in {"JUMPIFEQ", "JUMPIFNEQ"}
        /\ s1.kind = "ok" /\ s2.kind = "ok") =>
          IF ~(s1.v.t = s2.v.t \/ s1.v.t = "nil" \/ s2.v.t = "nil")
          THEN /\ phase = "Aborted"
               /\ exit_code = ERR_OPERAND_TYPE
               /\ program_state.pc = prev_state.pc
          ELSE IF (last.op = "JUMPIFEQ") <=> (s1.v = s2.v)
               THEN last.a1.name \in DOMAIN prev_state.labels =>
                       /\ NotFailed
                       /\ program_state.pc = prev_state.labels[last.a1.name]
               ELSE /\ NotFailed
                    /\ program_state.pc = prev_state.pc + 1

----------------------------------------------------------------------------
(* GETCHAR, checked under the data specification *)

\* the destination of the last instruction names a declared variable
DestDeclared ==
    LET d == get_symbol(prev_state, last.a1)
    IN d.kind = "ok" \/ (d.kind = "raise" /\ d.code = ERR_VAR_NOT_INIT)

\* C23: an executed GETCHAR whose operands resolve aborts with OperandType
\* unless they are a String s and an Int i; it aborts with the string error
\* when i is outside [0, len(s)); otherwise the (declared) destination holds
\* the one-character String s[i] and the program counter has advanced by 1.
C23_GetCharContract ==
    LET s1 == get_symbol(prev_state, last.a2)
        s2 == get_symbol(prev_state, last.a3)
    IN (/\ last.op = "GETCHAR"
        /\ s1.kind = "ok" /\ s2.kind = "ok") =>
          IF ~(s1.v.t = "string" /\ s2.v.t = "int")
          THEN phase = "Aborted" /\ exit_code = ERR_OPERAND_TYPE
          ELSE IF ~(s2.v.i >= 0 /\ s2.v.i < Len(s1.v.s))
          THEN phase = "Aborted" /\ exit_code = ERR_STRING
          ELSE DestDeclared =>
                 /\ NotFailed
                 /\ program_state.pc = prev_state.pc + 1
                 /\ get_symbol(program_state, last.a1).kind = "ok"
                 /\ get_symbol(program_state, last.a1).v
                      = ConstString(<<s1.v.s[s2.v.i + 1]>>)

----------------------------------------------------------------------------
(* The string specification: a global variable, SETCHAR, STRI2INT, INT2CHAR *)

StrValues == {ConstString(<<97, 98>>), ConstString(<< >>), ConstInt(1)}

SetCharIndexes == {Const(ConstInt(n)) : n \in {-1, 0, 2}} \cup {Variable("gf", "x")}

SetCharSources == {Const(ConstString(<<122>>)), Const(ConstString(<< >>)),
                   Const(ConstInt(0)), Variable("gf", "x")}

Stri2IntStrings == {Const(ConstString(<<97, 98>>)), Const(ConstInt(1)), Variable("gf", "x")}

Stri2IntIndexes == {Const(ConstInt(n)) : n \in {-1, 0, 1, 2}} \cup {Variable("gf", "x")}

Int2CharOperands ==
    {Const(ConstInt(n)) : n \in {-1, 65, MaxOrdinal, MaxOrdinal + 1}}
    \cup {Const(ConstBool(TRUE)), Const(ConstBool(FALSE)), Const(ConstString(<<97>>)),
          Const(ConstNil), Variable("gf", "x")}

AlphaStr ==
    {Instruction("DEFVAR", Variable("gf", "x"), NoArg, NoArg)}
    \cup {Instruction("MOVE", Variable("gf", "x"), Const(v), NoArg) : v \in StrValues}
    \cup {Instruction("SETCHAR", Variable("gf", "x"), a, b) :
            a \in SetCharIndexes, b \in SetCharSources}
    \cup {Instruction("STRI2INT", Variable("gf", "x"), a, b) :
            a \in Stri2IntStrings, b \in Stri2IntIndexes}
    \cup {Instruction("INT2CHAR", Variable("gf", "x"), a, NoArg) : a \in Int2CharOperands}

InitStr == InitWith(AlphaStr, MaxLenStr)

NextStr ==
    \/ LabelPassStep
    \/ BeginDispatch
    \/ Finish
    \/ ExecDefVar(AlphaStr)
    \/ ExecMove(AlphaStr)
    \/ ExecSetChar(AlphaStr)
    \/ ExecStri2Int(AlphaStr)
    \/ ExecInt2Char(AlphaStr)

SpecStr == InitStr /\ [][NextStr]_vars

\* C24: an executed SETCHAR on a String destination of length n with an Int
\* index and a String source aborts with the string-index error when the
\* index is outside [0, n), and with another error, one whose exit code
\* differs from that of the index error, when the index is in range and the
\* source is empty.
C24_SetCharErrors ==
    LET s0 == get_symbol(prev_state, last.a1)
        s1 == get_symbol(prev_state, last.a2)
        s2 == get_symbol(prev_state, last.a3)
    IN (/\ last.op = "SETCHAR"
        /\ s0.kind = "ok" /\ s1.kind = "ok" /\ s2.kind = "ok"
        /\ s0.v.t = "string" /\ s1.v.t = "int" /\ s2.v.t = "string") =>
          IF ~(s1.v.i >= 0 /\ s1.v.i < Len(s0.v.s))
          THEN phase = "Aborted" /\ exit_code = ERR_STRING
          ELSE s2.v.s = << >> =>
                 /\ phase = "Aborted"
                 /\ exit_code \in ErrorCodes \ {ERR_STRING}

\* C25: an executed STRI2INT whose operands resolve, as constants or as
\* initialised variables, aborts with OperandType unless they are a String s
\* and an Int i, and with the string error when i is outside [0, len(s));
\* otherwise the (declared) destination holds Int ord(s[i]) and the program
\* counter has advanced by 1.
C25_Stri2IntContract ==
    LET s1 == get_symbol(prev_state, last.a2)
        s2 == get_symbol(prev_state, last.a3)
    IN (/\ last.op = "STRI2INT"
        /\ s1.kind = "ok" /\ s2.kind = "ok") =>
          IF ~(s1.v.t = "string" /\ s2.v.t = "int")
          THEN phase = "Aborted" /\ exit_code = ERR_OPERAND_TYPE
          ELSE IF ~(s2.v.i >= 0 /\ s2.v.i < Len(s1.v.s))
          THEN phase = "Aborted" /\ exit_code = ERR_STRING
          ELSE DestDeclared =>
                 /\ NotFailed
                 /\ program_state.pc = prev_state.pc + 1
                 /\ get_symbol(program_state, last.a1).kind = "ok"
                 /\ get_symbol(program_state, last.a1).v = ConstInt(s1.v.s[s2.v.i + 1])

\* C26: an executed INT2CHAR whose operand resolves stores, for an Int that
\* is a valid character ordinal, the one-character String of that ordinal in
\* the (declared) destination; it aborts with the string error for an Int
\* that is no valid ordinal, and with OperandType, the frames unchanged, for
\* an operand of any other type.
C26_Int2CharContract ==
    LET s == get_symbol(prev_state, last.a2)
    IN (last.op = "INT2CHAR" /\ s.kind = "ok") =>
          IF s.v.t # "int"
          THEN /\ phase = "Aborted" /\ exit_code = ERR_OPERAND_TYPE
               /\ program_state = prev_state
          ELSE IF ~(s.v.i \in 0..MaxOrdinal)
          THEN phase = "Aborted" /\ exit_code = ERR_STRING
          ELSE DestDeclared =>
                 /\ NotFailed
                 /\ get_symbol(program_state, last.a1).kind = "ok"
                 /\ get_symbol(program_state, last.a1).v = ConstString(<<s.v.i>>)

----------------------------------------------------------------------------
(* The type specification: TYPE on a temporary frame rebuilt in a loop *)

TypeOperands ==
    {Const(ConstInt(1)), Const(ConstBool(TRUE)), Const(ConstString(<<97>>)), Const(ConstNil),
     Variable("tf", "x"), Variable("tf", "y"), Variable("lf", "x")}

AlphaType ==
    {Instruction("LABEL", Label("a"), NoArg, NoArg),
     Instruction("JUMP", Label("a"), NoArg, NoArg),
     Instruction("CREATEFRAME", NoArg, NoArg, NoArg),
     Instruction("DEFVAR", Variable("tf", "x"), NoArg, NoArg),
     Instruction("MOVE", Variable("tf", "x"), Const(ConstInt(1)), NoArg)}
    \cup {Instruction("TYPE", Variable("tf", "x"), a, NoArg) : a \in TypeOperands}

InitType == InitWith(AlphaType, MaxLenType)

NextType ==
    \/ LabelPassStep
    \/ BeginDispatch
    \/ Finish
    \/ ExecLabel(AlphaType)
    \/ ExecJump(AlphaType)
    \/ ExecCreateFrame(AlphaType)
    \/ ExecDefVar(AlphaType)
    \/ ExecMove(AlphaType)
    \/ ExecType(AlphaType)

SpecType == InitType /\ [][NextType]_vars

C27_Step ==
    (Running /\ program_state.pc < Len(instructions) /\ last'.op = "TYPE") =>
        LET a == last'.a2
            s == get_symbol(program_state, a)
            d == get_symbol(program_state, last'.a1)
            dest == d.kind = "ok" \/ (d.kind = "raise" /\ d.code = ERR_VAR_NOT_INIT)
            framed == a.k = "var" /\ FrameExists(program_state, a.fr)
            unset == framed /\ a.name \in NamesOf(unassigned, a.fr)
            after == get_symbol(program_state', last'.a1)
        IN /\ (a.k = "var" /\ ~framed) =>
                 (phase' = "Aborted" /\ exit_code' = ERR_NO_EXIST_FRAME)
           /\ (framed /\ a.name \notin DOMAIN FrameOf(program_state, a.fr)) =>
                 (phase' = "Aborted" /\ exit_code' = ERR_NO_EXIST_VAR)
           /\ (dest /\ unset) =>
                 /\ phase' = "Dispatching"
                 /\ program_state'.pc = program_state.pc + 1
                 /\ after.kind = "ok" /\ after.v = ConstString(<< >>)
           /\ (dest /\ s.kind = "ok" /\ ~unset) =>
                 /\ phase' = "Dispatching"
                 /\ program_state'.pc = program_state.pc + 1
                 /\ after.kind = "ok" /\ after.v = ConstString(TypeName(s.v.t))

\* C27: an executed TYPE stores in its (declared) destination the String
\* name of the type of an initialised operand, and the empty String for a
\* variable that is declared and was not assigned since its declaration; it
\* aborts with NoSuchFrame for a variable of a missing frame and with
\* NoSuchVariable for a variable that is not declared.
C27_TypeContract == [][C27_Step]_vars

----------------------------------------------------------------------------
(* argument.py: the escape sequences of a string constant.  A str is the   *)
(* sequence of its character ordinals; positions are 0-based as in Python. *)

\* str.find(c, start): the first position of character c at or after start, or -1
Find(str, c, start) ==
    LET hits == {j \in start..(Len(str) - 1) : str[j + 1] = c}
    IN IF hits = {} THEN -1 ELSE CHOOSE j \in hits : \A k \in hits : j <= k

\* the slice str[a:b]
Slice(str, a, b) == SubSeq(str, a + 1, IF b < Len(str) THEN b ELSE Len(str))

\* int(str) succeeds (on a str of digits, backslashes and letters) exactly
\* when str is a non-empty run of digits
IsDecimal(str) == str # << >> /\ \A j \in 1..Len(str) : str[j] \in 48..57

RECURSIVE DecimalValue(_)
DecimalValue(str) ==
    IF str = << >> THEN 0
    ELSE 10 * DecimalValue(SubSeq(str, 1, Len(str) - 1)) + (str[Len(str)] - 48)

RECURSIVE Replace(_, _, _)
\* str.replace(old, new) for a non-empty old and a one-character new
Replace(str, old, new) ==
    IF Len(str) < Len(old) THEN str
    ELSE IF SubSeq(str, 1, Len(old)) = old
         THEN <<new>> \o Replace(SubSeq(str, Len(old) + 1, Len(str)), old, new)
         ELSE <<Head(str)>> \o Replace(Tail(str), old, new)

RECURSIVE convert_from(_, _)
\* the while loop of Symbol._convert_escape_sequences from start_index on;
\* the ValueError of int is raised to the caller
convert_from(string, start_index) ==
    LET slash_index == Find(string, 92, start_index) IN
    IF slash_index = -1 THEN [kind |-> "ok", s |-> string]
    ELSE LET esc_seq == Slice(string, slash_index, slash_index + 4)
             digits == Slice(esc_seq, 2, Len(esc_seq))
         IN IF ~IsDecimal(digits) THEN [kind |-> "crash", s |-> string]
            ELSE convert_from(Replace(string, esc_seq, DecimalValue(digits)),
                              slash_index + 1)

convert_escape_sequences(string) == convert_from(string, 0)

\* Interpret.load on a document of one WRITE whose argument is a string
\* constant with the text of source[1] (create_argument, then
\* Symbol.__init__), then Interpret.initialize
LoadString ==
    /\ phase = "Loading"
    /\ LET r == convert_escape_sequences(source[1].text) IN
       IF r.kind = "ok"
       THEN /\ instructions' = <<Instruction("WRITE", Const(ConstString(r.s)), NoArg, NoArg)>>
            /\ program_state' = NewProgram(1)
            /\ prev_state' = NewProgram(1)
            /\ phase' = "LabelPass"
            /\ UNCHANGED exit_code
       ELSE /\ phase' = "Crashed"
            /\ exit_code' = 1
            /\ UNCHANGED <<instructions, program_state, prev_state>>
    /\ UNCHANGED <<it, last, call_sites, unassigned, source, pushed, output>>

----------------------------------------------------------------------------
(* The escape specification: one WRITE of a string constant whose text is  *)
(* made of plain characters and \DDD triplets                              *)

EscDigits == {48, 50, 54, 57}

EscTokens == {<<120>>, <<54>>} \cup {<<92, a, b, c>> : a \in EscDigits, b \in EscDigits,
                                                       c \in EscDigits}

RECURSIVE TokenTexts(_)
\* the texts of at most n tokens
TokenTexts(n) ==
    IF n = 0 THEN {<< >>}
    ELSE TokenTexts(n - 1) \cup {t \o k : t \in TokenTexts(n - 1), k \in EscTokens}

\* every single triplet from \000 to \999, and the texts of a few tokens
EscTexts ==
    {<<92, a, b, c>> : a \in 48..57, b \in 48..57, c \in 48..57} \cup TokenTexts(MaxEscTokens)

InitEsc ==
    /\ source \in {<<[order |-> 1, text |-> t]>> : t \in EscTexts}
    /\ instructions = << >>
    /\ program_state = NewProgram(0)
    /\ phase = "Loading"
    /\ exit_code = -1
    /\ it = 0
    /\ prev_state = NewProgram(0)
    /\ last = NoInstruction
    /\ call_sites = [open |-> << >>, matched |-> -1]
    /\ unassigned = [gf |-> {}, tf |-> {}, lfs |-> << >>]
    /\ pushed = [held |-> << >>, popped |-> NONE]
    /\ output = << >>

\* the instructions of the list
AlphaEsc == {instructions[j] : j \in 1..Len(instructions)}

NextEsc ==
    \/ LoadString
    \/ LabelPassStep
    \/ BeginDispatch
    \/ Finish
    \/ ExecWrite(AlphaEsc)

SpecEsc == InitEsc /\ [][NextEsc]_vars

RECURSIVE Decode(_)
\* the text with every backslash and three digits, read from the left,
\* replaced by the character with the ordinal the three digits denote
Decode(str) ==
    IF str = << >> THEN << >>
    ELSE IF /\ Len(str) >= 4 /\ str[1] = 92
            /\ str[2] \in 48..57 /\ str[3] \in 48..57 /\ str[4] \in 48..57
         THEN <<100 * (str[2] - 48) + 10 * (str[3] - 48) + (str[4] - 48)>>
              \o Decode(SubSeq(str, 5, Len(str)))
         ELSE <<Head(str)>> \o Decode(Tail(str))

\* C28: once the document is loaded, the value of the string constant is its
\* text with every \DDD triplet replaced by the character of ordinal DDD and
\* every other character unchanged; loading does not fail.
C28_EscapeDecoding ==
    phase # "Loading" =>
        /\ phase # "Crashed"
        /\ instructions[1].a1.val = ConstString(Decode(source[1].text))

----------------------------------------------------------------------------
(* The output specification: programs of DEFVAR, MOVE and WRITE *)

WriteValues ==
    {ConstInt(n) : n \in {-12, 0, 305}}
    \cup {ConstString(<<97, 98>>), ConstString(<< >>), ConstString(<<110, 105, 108>>),
          ConstBool(TRUE), ConstBool(FALSE), ConstNil}

WriteOperands == {Const(v) : v \in WriteValues} \cup {Variable("gf", "x"), Variable("gf", "y")}

AlphaWrite ==
    {Instruction("DEFVAR", Variable("gf", n), NoArg, NoArg) : n \in VarNames}
    \cup {Instruction("MOVE", Variable("gf", "x"), a, NoArg) : a \in WriteOperands}
    \cup {Instruction("WRITE", a, NoArg, NoArg) : a \in WriteOperands}

InitWrite == InitWith(AlphaWrite, MaxLenWrite)

NextWrite ==
    \/ LabelPassStep
    \/ BeginDispatch
    \/ Finish
    \/ ExecDefVar(AlphaWrite)
    \/ ExecMove(AlphaWrite)
    \/ ExecWrite(AlphaWrite)

SpecWrite == InitWrite /\ [][NextWrite]_vars

\* the value a decimal numeral denotes
Denotes(str) == IF str[1] = 45 THEN -DecimalValue(Tail(str)) ELSE DecimalValue(str)

\* str is the rendering of value v: true or false for a Bool, nothing for
\* Nil, the characters of a String, the decimal numeral of an Int
Renders(str, v) ==
    CASE v.t = "bool" -> str = IF v.b THEN <<116, 114, 117, 101>> ELSE <<102, 97, 108, 115, 101>>
      [] v.t = "nil" -> str = << >>
      [] v.t = "string" -> str = v.s
      [] v.t = "int" -> /\ str # << >> /\ str # <<45>>
                        /\ \A j \in 1..Len(str) : str[j] \in 48..57 \/ (j = 1 /\ str[j] = 45)
                        /\ (Len(str) > 1 => str[1] # 48)
                        /\ (str[1] = 45 => str[2] # 48)
                        /\ Denotes(str) = v.i

C29_Step ==
    (Running /\ program_state.pc < Len(instructions) /\ phase' = "Dispatching") =>
        LET src == get_symbol(program_state, IF last'.op = "WRITE" THEN last'.a1 ELSE last'.a2)
        IN /\ last'.op = "WRITE" =>
                 /\ Len(output') >= Len(output)
                 /\ SubSeq(output', 1, Len(output)) = output
                 /\ Renders(SubSeq(output', Len(output) + 1, Len(output')), src.v)
                 /\ program_state'.gf = program_state.gf
           /\ last'.op = "MOVE" =>
                 /\ get_symbol(program_state', last'.a1).kind = "ok"
                 /\ get_symbol(program_state', last'.a1).v = src.v
                 /\ output' = output
           /\ last'.op = "DEFVAR" => output' = output

\* C29: in a program of DEFVAR, MOVE and WRITE, nothing is printed before the
\* first instruction; every WRITE that completes appends to the output the
\* rendering of the value it writes (true or false for a Bool, nothing for
\* Nil, the decimal numeral of an Int, the characters of a String) and
\* nothing else changes the output; every MOVE that completes leaves in its
\* destination exactly the value and type of its source.
C29_OutputConcatenation == (phase = "LabelPass" => output = << >>) /\ [][C29_Step]_vars

\* a variable that received Bool false by MOVE was written after Int -12
C29_Witness ==
    /\ phase = "Ended"
    /\ last.op = "WRITE" /\ last.a1.k = "var"
    /\ get_symbol(program_state, last.a1).v = ConstBool(FALSE)
    /\ output = <<45, 49, 50, 102, 97, 108, 115, 101>>

----------------------------------------------------------------------------
(* The operator specification: arithmetic and logic on a global variable *)

ArithOps == {"ADD", "SUB", "MUL", "IDIV"}
LogicOps == {"AND", "OR", "NOT"}

OpOperands ==
    {Const(ConstInt(3)), Const(ConstBool(TRUE)), Const(ConstString(<<49>>)),
     Variable("gf", "r")}

AlphaLogic ==
    {Instruction("DEFVAR", Variable("gf", "r"), NoArg, NoArg)}
    \cup {Instruction(o, Variable("gf", "r"), a, b) :
            o \in (ArithOps \cup LogicOps) \ {"NOT"},
            a \in OpOperands \cup {Const(ConstNil)}, b \in OpOperands}
    \cup {Instruction("NOT", Variable("gf", "r"), a, NoArg) :
            a \in OpOperands \cup {Const(ConstNil)}}

InitLogic == InitWith(AlphaLogic, MaxLenLogic)

NextLogic ==
    \/ LabelPassStep
    \/ BeginDispatch
    \/ Finish
    \/ ExecDefVar(AlphaLogic)
    \/ ExecAdd(AlphaLogic)
    \/ ExecSub(AlphaLogic)
    \/ ExecMul(AlphaLogic)
    \/ ExecIdiv(AlphaLogic)
    \/ ExecAnd(AlphaLogic)
    \/ ExecOr(AlphaLogic)
    \/ ExecNot(AlphaLogic)

SpecLogic == InitLogic /\ [][NextLogic]_vars

\* C30: an executed ADD, SUB, MUL or IDIV whose operands resolve aborts with
\* OperandType, nothing written, unless both are Int, and an executed AND,
\* OR or NOT does so unless every operand is Bool; with operands of the
\* required type the instruction completes (a declared destination, no
\* division by zero) and leaves an Int, respectively a Bool, in the
\* destination.
C30_NoCoercion ==
    LET s1 == get_symbol(prev_state, last.a2)
        s2 == IF last.op = "NOT" THEN s1 ELSE get_symbol(prev_state, last.a3)
        want == IF last.op \in ArithOps THEN "int" ELSE "bool"
    IN (/\ last.op \in ArithOps \cup LogicOps
        /\ s1.kind = "ok" /\ s2.kind = "ok") =>
          IF ~(s1.v.t = want /\ s2.v.t = want)
          THEN /\ phase = "Aborted"
               /\ exit_code = ERR_OPERAND_TYPE
               /\ program_state = prev_state
          ELSE (DestDeclared /\ ~(last.op = "IDIV" /\ s2.v.i = 0)) =>
                 /\ NotFailed
                 /\ get_symbol(program_state, last.a1).kind = "ok"
                 /\ get_symbol(program_state, last.a1).v.t = want

\* AND on a variable that an arithmetic instruction left an Int in has
\* aborted with OperandType
C30_Witness ==
    /\ last.op = "AND" /\ last.a2.k = "var"
    /\ get_symbol(prev_state, last.a2).kind = "ok"
    /\ get_symbol(prev_state, last.a2).v.t = "int"
    /\ get_symbol(prev_state, last.a3).kind = "ok"
    /\ phase = "Aborted" /\ exit_code = ERR_OPERAND_TYPE

----------------------------------------------------------------------------
(* SETCHAR's success case, checked under the string specification *)

\* C33: an executed SETCHAR whose destination holds a String d, whose index
\* is an Int i with 0 <= i < len(d) and whose source is a non-empty String s
\* completes without error; the destination then holds d with the character
\* at position i replaced by s[0], and the program counter has advanced by 1.
C33_SetCharSuccess ==
    LET s0 == get_symbol(prev_state, last.a1)
        s1 == get_symbol(prev_state, last.a2)
        s2 == get_symbol(prev_state, last.a3)
    IN (/\ last.op = "SETCHAR"
        /\ s0.kind = "ok" /\ s1.kind = "ok" /\ s2.kind = "ok"
        /\ s0.v.t = "string" /\ s1.v.t = "int" /\ s2.v.t = "string"
        /\ s1.v.i >= 0 /\ s1.v.i < Len(s0.v.s)
        /\ s2.v.s # << >>) =>
          /\ NotFailed
          /\ program_state.pc = prev_state.pc + 1
          /\ get_symbol(program_state, last.a1).kind = "ok"
          /\ get_symbol(program_state, last.a1).v
               = ConstString([s0.v.s EXCEPT ![s1.v.i + 1] = s2.v.s[1]])

----------------------------------------------------------------------------
(* A fresh variable, checked under the type specification *)

\* C34: right after every DEFVAR that completed, reading the defined
\* variable fails with UninitializedVariable, and a TYPE of it would store
\* the empty String.
C34_FreshVariableUninitialised ==
    (last.op = "DEFVAR" /\ phase = "Dispatching") =>
        LET r == get_symbol(program_state, last.a1)
            t == TypeInstruction(program_state, Instruction("TYPE", last.a1, last.a1, NoArg))
        IN /\ r.kind = "raise" /\ r.code = ERR_VAR_NOT_INIT
           /\ t.kind = "ok"
           /\ get_symbol(t.p, last.a1).v = ConstString(<< >>)

----------------------------------------------------------------------------
(* Nil operands and undefined labels, checked under the conditional-jump  *)
(* specification                                                           *)

\* C37: an executed JUMPIFEQ or JUMPIFNEQ with exactly one Nil operand finds
\* its operands not equal: JUMPIFEQ continues at the next instruction, and
\* JUMPIFNEQ (its label defined) continues at the label's address.
C37_NilEqualsOnlyNil ==
    LET s1 == get_symbol(prev_state, last.a2)
        s2 == get_symbol(prev_state, last.a3)
    IN (/\ last.op \in {"JUMPIFEQ", "JUMPIFNEQ"}
        /\ s1.kind = "ok" /\ s2.kind = "ok"
        /\ (s1.v.t = "nil") # (s2.v.t = "nil")) =>
          IF last.op = "JUMPIFEQ"
          THEN NotFailed /\ program_state.pc = prev_state.pc + 1
          ELSE last.a1.name \in DOMAIN prev_state.labels =>
                  /\ NotFailed
                  /\ program_state.pc = prev_state.labels[last.a1.name]

\* C38: an executed JUMPIFEQ or JUMPIFNEQ whose operands pass the type check
\* (equal types, or a Nil operand) and whose label is not in the label table
\* aborts with the Semantic error, whether its condition selects the jump or
\* not.
C38_UndefinedLabelAlwaysFails ==
    LET s1 == get_symbol(prev_state, last.a2)
        s2 == get_symbol(prev_state, last.a3)
    IN (/\ last.op \in {"JUMPIFEQ", "JUMPIFNEQ"}
        /\ s1.kind = "ok" /\ s2.kind = "ok"
        /\ (s1.v.t = s2.v.t \/ s1.v.t = "nil" \/ s2.v.t = "nil")
        /\ last.a1.name \notin DOMAIN prev_state.labels) =>
          phase = "Aborted" /\ exit_code = ERR_SEMANTICS

----------------------------------------------------------------------------
(* Separation of the frames, checked under the frame specification *)

\* the local frames below the top one, as seen by the program
LowerFrames(p) == [k \in 1..(Len(p.lfs) - 1) |-> FrameView(p, p.lfs[k])]

\* C35: a MOVE that completed and assigned a variable of one frame (GF, TF or
\* the top local frame) left the value, type and initialised status of every
\* variable of every other frame as they were, the local frames below the top
\* one included.
C35_FramesDoNotAlias ==
    (last.op = "MOVE" /\ NotFailed) =>
        /\ LowerFrames(program_state) = LowerFrames(prev_state)
        /\ last.a1.fr # "gf" =>
              FrameView(program_state, program_state.gf) = FrameView(prev_state, prev_state.gf)
        /\ last.a1.fr # "tf" =>
              FrameView(program_state, program_state.tf) = FrameView(prev_state, prev_state.tf)
        /\ last.a1.fr # "lf" =>
              StackView(program_state) = StackView(prev_state)

----------------------------------------------------------------------------
(* Straight-line programs, checked under the data specification (no jump, *)
(* call or return in its alphabet)                                         *)

\* C40: in a program without JUMP, JUMPIFEQ, JUMPIFNEQ, CALL and RETURN every
\* executed instruction either ends the run (EXIT or an error abort) or moves
\* the program counter from its index to the next one, never beyond N; so
\* the indexes are executed at most once, in increasing order, and after at
\* most N executions the run is final: ended normally with code 0, exited,
\* or aborted with an error.
C40_StraightLineTermination ==
    /\ last.op \notin {"JUMP", "JUMPIFEQ", "JUMPIFNEQ", "CALL", "RETURN"}
    /\ last.op # "-" =>
          \/ phase \in {"Exited", "Aborted"}
          \/ /\ NotFailed
             /\ program_state.pc = prev_state.pc + 1
             /\ program_state.pc <= Len(instructions)
    /\ phase = "Ended" => exit_code = 0 /\ program_state.pc = Len(instructions)

----------------------------------------------------------------------------
(* The range of the program counter, checked under the control-flow       *)
(* specification                                                           *)

\* C36: from the start of the dispatch pass on, the program counter lies in
\* 0..N for N the number of instructions, every address in the label table
\* and every return address on the call stack lies in 1..N, and a run that
\* ended normally ended with the program counter at N and exit code 0.
C36_ProgramCounterRange ==
    LET N == Len(instructions) IN
    phase \in {"Dispatching", "Ended", "Exited", "Aborted"} =>
        /\ program_state.pc \in 0..N
        /\ \A l \in DOMAIN program_state.labels : program_state.labels[l] \in 1..N
        /\ \A k \in 1..Len(program_state.call_stack) : program_state.call_stack[k] \in 1..N
        /\ phase = "Ended" => program_state.pc = N /\ exit_code = 0

\* a RETURN has popped the address N, pushed by a CALL in the last position,
\* and the run has ended normally
C36_Witness ==
    /\ last.op = "RETURN"
    /\ prev_state.call_stack # << >>
    /\ program_state.pc = Len(instructions)
    /\ phase = "Ended" /\ exit_code = 0

----------------------------------------------------------------------------
(* The empty-stack specification: calls, returns, the data stack and one  *)
(* global variable                                                         *)

AlphaEmpty ==
    {Instruction("LABEL", Label("a"), NoArg, NoArg),
     Instruction("CALL", Label("a"), NoArg, NoArg),
     Instruction("RETURN", NoArg, NoArg, NoArg),
     Instruction("DEFVAR", Variable("gf", "x"), NoArg, NoArg),
     Instruction("MOVE", Variable("gf", "x"), Const(ConstInt(1)), NoArg),
     Instruction("MOVE", Variable("gf", "x"), Variable("gf", "x"), NoArg),
     Instruction("PUSHS", Const(ConstInt(1)), NoArg, NoArg),
     Instruction("PUSHS", Variable("gf", "x"), NoArg, NoArg),
     Instruction("POPS", Variable("gf", "x"), NoArg, NoArg)}

InitEmpty == InitWith(AlphaEmpty, MaxLenEmpty)

NextEmpty ==
    \/ LabelPassStep
    \/ BeginDispatch
    \/ Finish
    \/ ExecLabel(AlphaEmpty)
    \/ ExecCall(AlphaEmpty)
    \/ ExecReturn(AlphaEmpty)
    \/ ExecDefVar(AlphaEmpty)
    \/ ExecMove(AlphaEmpty)
    \/ ExecPushs(AlphaEmpty)
    \/ ExecPops(AlphaEmpty)

SpecEmpty == InitEmpty /\ [][NextEmpty]_vars

\* the instruction read a variable that is declared and was never assigned
ReadsUnassigned(ins) ==
    /\ ins.op = "MOVE" /\ ins.a2.k = "var"
    /\ ins.a1.name \in DOMAIN prev_state.gf
    /\ ins.a2.name \in NamesOf(unassigned, ins.a2.fr)

\* C39: a RETURN that found the call stack empty, a POPS that found the data
\* stack empty and a read of a declared variable that was never assigned
\* have all three aborted the run with the same exit code, 56.
C39_EmptyStackExitCode ==
    (\/ last.op = "RETURN" /\ prev_state.call_stack = << >>
     \/ last.op = "POPS" /\ prev_state.data_stack = << >>
     \/ ReadsUnassigned(last)) =>
        /\ phase = "Aborted"
        /\ exit_code = ERR_VAR_NOT_INIT
        /\ ERR_VAR_NOT_INIT = 56

\* a POPS into a declared variable found the data stack empty, after an
\* earlier POPS had emptied it, and aborted with 56
C39_Witness ==
    /\ last.op = "POPS" /\ prev_state.data_stack = << >>
    /\ last.a1.name \in DOMAIN prev_state.gf
    /\ pushed.popped # NONE
    /\ phase = "Aborted" /\ exit_code = 56

----------------------------------------------------------------------------
(* instruction.py: ReadInstruction.  A line is what Program.get_line hands *)
(* back: the next line of the input without its newline, or the empty     *)
(* string at the end of the input.                                        *)

\* str.upper on the letters a..z
Upper(str) == [j \in 1..Len(str) |-> IF str[j] \in 97..122 THEN str[j] - 32 ELSE str[j]]

RECURSIVE OctalValue(_)
OctalValue(str) ==
    IF str = << >> THEN 0
    ELSE 8 * OctalValue(SubSeq(str, 1, Len(str) - 1)) + (str[Len(str)] - 48)

\* ReadInstruction._get_number_base and int(input_read, base) for a line
\* without underscores and base letters: the decimal pattern is 0 or digits
\* that do not start with 0, the octal pattern 0 followed by digits 0..7;
\* any other line raises ValueError, which makes the result nil
ReadInt(line) ==
    IF IsDecimal(line) /\ (line = <<48>> \/ line[1] # 48)
    THEN ConstInt(DecimalValue(line))
    ELSE IF Len(line) > 1 /\ line[1] = 48 /\ \A j \in 2..Len(line) : line[j] \in 48..55
         THEN ConstInt(OctalValue(line))
    ELSE ConstNil

ReadInstruction(p, ins, line) ==
    IF ins.a2.name \notin {"int", "string", "bool"} THEN Raise(p, ERR_OPERAND_TYPE)
    ELSE LET result == CASE ins.a2.name = "int" -> ReadInt(line)
                         [] ins.a2.name = "string" -> ConstString(line)
                         [] ins.a2.name = "bool" ->
                                ConstBool(Upper(line) = <<84, 82, 85, 69>>)
             w == set_variable(p, ins.a1, result)
         IN IF w.kind # "ok" THEN w ELSE Advance(w.p)

\* the lines the input hands to READ: end of input, 0, 12, 07, tRue, ab
InputLines ==
    {<< >>, <<48>>, <<49, 50>>, <<48, 55>>, <<116, 82, 117, 101>>, <<97, 98>>}

ExecRead(A) ==
    \E ins \in OfOpcode(A, "READ") : \E line \in InputLines :
        Fetched(ins) /\ Complete(ins, ReadInstruction(program_state, ins, line))

----------------------------------------------------------------------------
(* The step specification: one or a few instructions of every opcode; its *)
(* WRITE prints nil, the empty text, so that a loop leaves the output as  *)
(* it is                                                                  *)

StepX == Variable("gf", "x")
StepOne == Const(ConstInt(1))
StepTrue == Const(ConstBool(TRUE))
StepText == Const(ConstString(<<97, 98>>))

AlphaStep ==
    {Instruction("LABEL", Label("a"), NoArg, NoArg),
     Instruction("JUMP", Label("a"), NoArg, NoArg),
     Instruction("CALL", Label("a"), NoArg, NoArg),
     Instruction("RETURN", NoArg, NoArg, NoArg),
     Instruction("EXIT", Const(ConstInt(0)), NoArg, NoArg),
     Instruction("CREATEFRAME", NoArg, NoArg, NoArg),
     Instruction("PUSHFRAME", NoArg, NoArg, NoArg),
     Instruction("POPFRAME", NoArg, NoArg, NoArg),
     Instruction("DEFVAR", StepX, NoArg, NoArg),
     Instruction("PUSHS", StepOne, NoArg, NoArg),
     Instruction("POPS", StepX, NoArg, NoArg),
     Instruction("READ", StepX, Type("int"), NoArg),
     Instruction("READ", StepX, Type("bool"), NoArg),
     Instruction("WRITE", Const(ConstNil), NoArg, NoArg),
     Instruction("DPRINT", StepOne, NoArg, NoArg),
     Instruction("BREAK", NoArg, NoArg, NoArg),
     Instruction("GETCHAR", StepX, StepText, Const(ConstInt(0))),
     Instruction("SETCHAR", StepX, Const(ConstInt(0)), StepText),
     Instruction("STRI2INT", StepX, StepText, Const(ConstInt(0))),
     Instruction("INT2CHAR", StepX, Const(ConstInt(65)), NoArg)}
    \cup {Instruction(op, Label("a"), StepOne, Const(ConstInt(n))) :
            op \in {"JUMPIFEQ", "JUMPIFNEQ"}, n \in {0, 1}}
    \cup {Instruction(op, StepX, a, NoArg) :
            op \in {"MOVE", "TYPE", "STRLEN"}, a \in {StepText}}
    \cup {Instruction("NOT", StepX, StepTrue, NoArg),
          Instruction("CONCAT", StepX, StepText, StepText)}
    \cup {Instruction(op, StepX, StepOne, StepOne) :
            op \in {"ADD", "SUB", "MUL", "IDIV", "LT", "GT", "EQ"}}
    \cup {Instruction(op, StepX, StepTrue, StepTrue) : op \in {"AND", "OR"}}

InitStep == InitWith(AlphaStep, MaxLenStep)

NextStep ==
    \/ LabelPassStep
    \/ BeginDispatch
    \/ Finish
    \/ ExecLabel(AlphaStep)
    \/ ExecJump(AlphaStep)
    \/ ExecJumpIfEq(AlphaStep)
    \/ ExecJumpIfNeq(AlphaStep)
    \/ ExecCall(AlphaStep)
    \/ ExecReturn(AlphaStep)
    \/ ExecExit(AlphaStep)
    \/ ExecCreateFrame(AlphaStep)
    \/ ExecPushFrame(AlphaStep)
    \/ ExecPopFrame(AlphaStep)
    \/ ExecDefVar(AlphaStep)
    \/ ExecMove(AlphaStep)
    \/ ExecType(AlphaStep)
    \/ ExecPushs(AlphaStep)
    \/ ExecPops(AlphaStep)
    \/ ExecRead(AlphaStep)
    \/ ExecWrite(AlphaStep)
    \/ ExecDprint(AlphaStep)
    \/ ExecBreak(AlphaStep)
    \/ ExecConcat(AlphaStep)
    \/ ExecStrLen(AlphaStep)
    \/ ExecGetChar(AlphaStep)
    \/ ExecSetChar(AlphaStep)
    \/ ExecStri2Int(AlphaStep)
    \/ ExecInt2Char(AlphaStep)
    \/ ExecAdd(AlphaStep)
    \/ ExecSub(AlphaStep)
    \/ ExecMul(AlphaStep)
    \/ ExecIdiv(AlphaStep)
    \/ ExecLt(AlphaStep)
    \/ ExecGt(AlphaStep)
    \/ ExecEq(AlphaStep)
    \/ ExecAnd(AlphaStep)
    \/ ExecOr(AlphaStep)
    \/ ExecNot(AlphaStep)

SpecStep == InitStep /\ [][NextStep]_vars

\* the condition of the conditional jump ins held in state p: it selected
\* the jump
Taken(p, ins) ==
    LET eq == PyEq(get_symbol(p, ins.a2).v, get_symbol(p, ins.a3).v)
    IN IF ins.op = "JUMPIFEQ" THEN eq ELSE ~eq

\* C31: an instruction that completed without error has set the program
\* counter to the address of its label when it is JUMP, CALL or a conditional
\* jump whose condition selected the jump, to the address it popped from the
\* call stack when it is RETURN, and has increased it by exactly 1 when it
\* is any other instruction, LABEL and a conditional jump that is not taken
\* included.
C31_ProgramCounterStep ==
    (NotFailed /\ last.op \notin {"-", "EXIT"}) =>
        CASE last.op \in {"JUMP", "CALL"} ->
                program_state.pc = prev_state.labels[last.a1.name]
          [] last.op \in {"JUMPIFEQ", "JUMPIFNEQ"} ->
                IF Taken(prev_state, last)
                THEN program_state.pc = prev_state.labels[last.a1.name]
                ELSE program_state.pc = prev_state.pc + 1
          [] last.op = "RETURN" ->
                program_state.pc = prev_state.call_stack[Len(prev_state.call_stack)]
          [] OTHER -> program_state.pc = prev_state.pc + 1

\* a conditional jump that was not taken has moved the program counter to
\* the next instruction, which is not the address of its label
C31_Witness ==
    /\ last.op = "JUMPIFEQ" /\ ~Taken(prev_state, last)
    /\ NotFailed
    /\ program_state.pc = prev_state.pc + 1
    /\ last.a1.name \in DOMAIN prev_state.labels
    /\ prev_state.labels[last.a1.name] # program_state.pc

----------------------------------------------------------------------------
(* The operand specification: Interpret.load on a document whose elements *)
(* carry any list of up to three arguments of any kinds, their order      *)
(* attributes being 1, 2, ...                                             *)

FirstArgs == {Variable("gf", "x"), Const(ConstInt(1)), Label("a")}
SecondArgs == FirstArgs \cup {Type("int")}
ThirdArgs == {Const(ConstInt(1))}

\* the argument lists of the documents, as the three slots of an instruction
ArgLists ==
    {<<NoArg, NoArg, NoArg>>}
    \cup {<<a, NoArg, NoArg>> : a \in FirstArgs}
    \cup {<<a, b, NoArg>> : a \in FirstArgs, b \in SecondArgs}
    \cup {<<Variable("gf", "x"), b, c>> : b \in SecondArgs, c \in ThirdArgs}

ArgsOpcodes == {"MOVE", "READ", "JUMP", "BREAK"}

AlphaArgs == {Instruction(op, l[1], l[2], l[3]) : op \in ArgsOpcodes, l \in ArgLists}

InitArgs ==
    /\ \E n \in 0..MaxLenArgs : \E f \in [1..n -> AlphaArgs] :
          source = [j \in 1..n |-> [order |-> j, ins |-> f[j]]]
    /\ instructions = << >>
    /\ program_state = NewProgram(0)
    /\ phase = "Loading"
    /\ exit_code = -1
    /\ it = 0
    /\ prev_state = NewProgram(0)
    /\ last = NoInstruction
    /\ call_sites = [open |-> << >>, matched |-> -1]
    /\ unassigned = [gf |-> {}, tf |-> {}, lfs |-> << >>]
    /\ pushed = [held |-> << >>, popped |-> NONE]
    /\ output = << >>

NextArgs ==
    \/ Load
    \/ LabelPassStep
    \/ BeginDispatch
    \/ Finish
    \/ ExecMove(AlphaArgs)
    \/ ExecRead(AlphaArgs)
    \/ ExecJump(AlphaArgs)
    \/ ExecBreak(AlphaArgs)

SpecArgs == InitArgs /\ [][NextArgs]_vars

\* the operand contract of the opcodes: the kinds each argument may have
OperandKinds(opcode) ==
    LET var == {"var"}
        symb == {"var", "const"}
        label == {"label"}
        type == {"type"}
    IN CASE opcode \in {"CREATEFRAME", "PUSHFRAME", "POPFRAME", "RETURN", "BREAK"} -> << >>
         [] opcode \in {"DEFVAR", "POPS"} -> <<var>>
         [] opcode \in {"CALL", "LABEL", "JUMP"} -> <<label>>
         [] opcode \in {"EXIT", "PUSHS", "WRITE", "DPRINT"} -> <<symb>>
         [] opcode \in {"MOVE", "INT2CHAR", "TYPE", "STRLEN", "NOT"} -> <<var, symb>>
         [] opcode = "READ" -> <<var, type>>
         [] opcode \in {"JUMPIFEQ", "JUMPIFNEQ"} -> <<label, symb, symb>>
         [] OTHER -> <<var, symb, symb>>

\* instruction ins has the arity and the argument kinds of its opcode
MeetsContract(ins) ==
    LET kinds == <<ins.a1.k, ins.a2.k, ins.a3.k>>
        n == Len(OperandKinds(ins.op))
    IN \A j \in 1..3 :
          IF j <= n THEN kinds[j] \in OperandKinds(ins.op)[j] ELSE kinds[j] = "none"

\* C32: when some element of the document does not meet the operand contract
\* of its opcode, the load is rejected with exit code 32 and no instruction
\* reaches the label pass or the dispatch; so every instruction of a list
\* that reached them meets the contract of its opcode.
C32_StaticOperandContract ==
    /\ (\E j \in 1..Len(source) : ~MeetsContract(source[j].ins)) =>
          /\ phase \in {"Loading", "Aborted"}
          /\ phase = "Aborted" => exit_code = 32
          /\ instructions = << >>
          /\ last = NoInstruction
    /\ \A j \in 1..Len(instructions) : MeetsContract(instructions[j])

\* a document whose first element meets its contract and whose second is a
\* READ with a constant in place of the type literal has been rejected
C32_Witness ==
    /\ Len(source) = 2
    /\ MeetsContract(source[1].ins)
    /\ source[2].ins.op = "READ" /\ source[2].ins.a1.k = "var" /\ source[2].ins.a2.k = "const"
    /\ source[2].ins.a3.k = "none"
    /\ phase = "Aborted" /\ exit_code = 32

====
